---- MODULE Spec2Model ----
(***************************************************************************)
(* State-machine model of the DREGAN on-chain programs:                    *)
(*   programs/dregan-staking/src/lib.rs  (time-locked staking pool)        *)
(*   programs/dregan-nft/src/lib.rs      (tiered access NFTs)              *)
(*                                                                         *)
(* Every instruction is one atomic action.  An instruction handler is a    *)
(* state function returning its error code, the accounts as it leaves them *)
(* and the token transfers it made; a handler that returns an error        *)
(* commits nothing (the ledger discards every account write of a failed    *)
(* instruction), so a failed instruction is a stuttering step.             *)
(*                                                                         *)
(* u64 / u128 quantities are little-endian byte sequences so that the      *)
(* arithmetic keeps the width the program has.                             *)
(***************************************************************************)
EXTENDS Integers, Sequences, FiniteSets

VARIABLES
    clock,           \* Clock::get().unix_timestamp
    pool,            \* staking: Pool account
    token_accounts,  \* staking: SPL token accounts (id -> owner, mint, amount)
    user_stakes,     \* staking: UserStake accounts, keyed by PDA seeds <<user, timestamp>>
    config,          \* nft: ProgramConfig account
    tiers,           \* nft: TierConfig accounts, keyed by PDA seed tier_id
    holders,         \* nft: HolderRecord accounts, keyed by PDA seeds <<buyer, tier_id>>
    nft_accounts     \* nft: associated token accounts of the NFT mints, <<owner, mint>> -> amount

vars == <<clock, pool, token_accounts, user_stakes, config, tiers, holders, nft_accounts>>

stakingVars == <<pool, token_accounts, user_stakes>>
nftVars == <<config, tiers, holders, nft_accounts>>

(***************************************************************************)
(* Bounds of the model                                                     *)
(***************************************************************************)
MaxPositions == 2      \* UserStake accounts ever created
MaxTicks == 1          \* clock advances
TickDays == 30         \* length of one clock advance
StartTime == 1700000000

TickSecs == TickDays * 24 * 60 * 60

(***************************************************************************)
(* Fixed-width unsigned integers as little-endian byte sequences           *)
(***************************************************************************)
Base == 256
U64Bytes == 8
U128Bytes == 16

RECURSIVE ToBytes(_, _)
ToBytes(n, len) ==
    IF len = 0 THEN <<>> ELSE <<n % Base>> \o ToBytes(n \div Base, len - 1)

\* A u64 literal (n must fit a TLC integer).
U64(n) == ToBytes(n, U64Bytes)

\* `x as u128` for a u64 x: zero extension.
AsU128(x) == x \o [i \in 1..(U128Bytes - Len(x)) |-> 0]

\* `x as u64` for a u128 x: the low 64 bits.
AsU64(x) == SubSeq(x, 1, U64Bytes)

IsZero(x) == \A i \in 1..Len(x) : x[i] = 0

\* x < y for two numbers of the same width.
RECURSIVE LessFrom(_, _, _)
LessFrom(x, y, i) ==
    IF i = 0 THEN FALSE
    ELSE IF x[i] # y[i] THEN x[i] < y[i]
    ELSE LessFrom(x, y, i - 1)

Less(x, y) == LessFrom(x, y, Len(x))
Geq(x, y) == ~Less(x, y)

Some(v) == [some |-> TRUE, val |-> v]
None == [some |-> FALSE, val |-> <<>>]

RECURSIVE AddCarry(_, _, _)
AddCarry(x, y, c) ==
    IF x = <<>> THEN <<c>>
    ELSE LET s == Head(x) + Head(y) + c
         IN  <<s % Base>> \o AddCarry(Tail(x), Tail(y), s \div Base)

\* uN::checked_add: None on overflow of the width of x.
checked_add(x, y) ==
    LET r == AddCarry(x, y, 0)
    IN  IF r[Len(r)] # 0 THEN None ELSE Some(SubSeq(r, 1, Len(x)))

RECURSIVE SubBorrow(_, _, _)
SubBorrow(x, y, b) ==
    IF x = <<>> THEN <<>>
    ELSE LET d == Head(x) - Head(y) - b
         IN  <<d % Base>> \o SubBorrow(Tail(x), Tail(y), IF d < 0 THEN 1 ELSE 0)

\* uN::checked_sub: None when y > x.
checked_sub(x, y) ==
    IF Less(x, y) THEN None ELSE Some(SubBorrow(x, y, 0))

RECURSIVE MulCarry(_, _, _)
MulCarry(x, k, c) ==
    IF x = <<>> THEN <<c>>
    ELSE LET p == Head(x) * k + c
         IN  <<p % Base>> \o MulCarry(Tail(x), k, p \div Base)

\* u128::checked_mul by a factor k < 2^16: None on overflow of the width of x.
checked_mul(x, k) ==
    LET r == MulCarry(x, k, 0)
    IN  IF r[Len(r)] # 0 THEN None ELSE Some(SubSeq(r, 1, Len(x)))

\* Long division by a divisor d < 2^22, most significant byte first.
RECURSIVE DivFrom(_, _, _, _)
DivFrom(x, d, i, rem) ==
    IF i = 0 THEN <<>>
    ELSE LET cur == rem * Base + x[i]
         IN  DivFrom(x, d, i - 1, cur % d) \o <<cur \div d>>

\* u128::checked_div: None when the divisor is zero.
checked_div(x, d) ==
    IF d = 0 THEN None ELSE Some(DivFrom(x, d, Len(x), 0))

(***************************************************************************)
(* Identities, mints and token accounts                                    *)
(***************************************************************************)
Identities == {"alice", "bob"}
PoolKey == "pool"                    \* PDA seeds = [b"pool"]
VaultKey == "vault"                  \* PDA seeds = [b"vault"]
StakeMint == "DREGAN"
OtherMint == "OTHER"
NoKey == "none"

Huge == <<0, 0, 0, 0, 0, 0, 0, 240>>     \* 0xF000000000000000

\* Wallet token accounts that exist before the pool does, bob holding `bob_amount`.
WalletAccountsWith(bob_amount) ==
    [id \in {"alice_ata", "bob_ata", "alice_other"} |->
        CASE id = "alice_ata"   -> [owner |-> "alice", mint |-> StakeMint, amount |-> U64(1500)]
          [] id = "bob_ata"     -> [owner |-> "bob", mint |-> StakeMint, amount |-> bob_amount]
          [] id = "alice_other" -> [owner |-> "alice", mint |-> OtherMint, amount |-> U64(1500)]]

WalletAccounts == WalletAccountsWith(U64(1500))

\* The same wallets, bob holding most of a supply close to 2^64.
WideWalletAccounts == WalletAccountsWith(checked_add(Huge, U64(1000)).val)

WalletAccountIds == DOMAIN WalletAccounts

\* Instruction arguments the model draws from.
AmountChoices == {U64(0), U64(1000)}
LockDayChoices == {30, 60, 90, 45}
RateTables == {<<1000, 1500, 2000>>, <<0, 1500, 2000>>}

\* Arguments at the far end of the u64 / u16 ranges.
WideAmountChoices == {U64(1000), Huge}
WideRateTables == {<<1000, 1500, 2000>>, <<65535, 65535, 65535>>}

(***************************************************************************)
(* Staking program: accounts                                               *)
(***************************************************************************)
\* The Pool account before `initialize` (no data).
NoPool ==
    [is_initialized |-> FALSE, authority |-> NoKey, stake_mint |-> NoKey,
     reward_mint |-> NoKey, pool_vault |-> NoKey,
     total_staked |-> U64(0), total_stakers |-> 0,
     reward_rate_30 |-> 0, reward_rate_60 |-> 0, reward_rate_90 |-> 0,
     is_paused |-> FALSE]

StakeKeys == DOMAIN user_stakes
OpenKeys == {k \in StakeKeys : ~user_stakes[k].is_claimed}

NoEvent == [name |-> "none"]

\* Outcome of an instruction: the error code, the accounts as the instruction
\* leaves them, the token transfers it made and the event it emitted.
Ok(p, ta, us, xfers, ev) ==
    [err |-> "Ok", pool |-> p, token_accounts |-> ta, user_stakes |-> us,
     transfers |-> xfers, event |-> ev]

\* A failed instruction commits no account write, no transfer and no event.
Err(e) ==
    [err |-> e, pool |-> pool, token_accounts |-> token_accounts,
     user_stakes |-> user_stakes, transfers |-> <<>>, event |-> NoEvent]

(***************************************************************************)
(* SPL token program: transfer                                             *)
(***************************************************************************)
\* token::transfer(from, to, authority, amount) on the accounts `ta`.
token_transfer(ta, from, to, authority, amount) ==
    IF ta[from].mint # ta[to].mint THEN [err |-> "MintMismatch", ta |-> ta]
    ELSE IF ta[from].owner # authority THEN [err |-> "OwnerMismatch", ta |-> ta]
    ELSE IF Less(ta[from].amount, amount) THEN [err |-> "InsufficientFunds", ta |-> ta]
    ELSE IF from = to THEN [err |-> "Ok", ta |-> ta]
    ELSE LET credit == checked_add(ta[to].amount, amount)
         IN  IF ~credit.some THEN [err |-> "Overflow", ta |-> ta]
             ELSE [err |-> "Ok",
                   ta |-> [ta EXCEPT ![from].amount = checked_sub(@, amount).val,
                                     ![to].amount = credit.val]]

Transfer(from, to, amount) == [from |-> from, to |-> to, amount |-> amount]

\* Mutant: the result of the CPI is dropped.
is_err_ignored(t) == FALSE

\* The `?` after a CPI: the instruction returns the error of a failed call.
is_err(t) == t.err # "Ok"

(***************************************************************************)
(* Staking program: reward arithmetic                                      *)
(***************************************************************************)
\* fn calculate_reward(amount: u64, rate_bps: u16, lock_days: u8) -> Result<u64>
calculate_reward(amount, rate_bps, lock_days) ==
    LET m1 == checked_mul(AsU128(amount), rate_bps)
    IN  IF ~m1.some THEN None
        ELSE LET m2 == checked_mul(m1.val, lock_days)
             IN  IF ~m2.some THEN None
                 ELSE LET q == checked_div(m2.val, 10000 * 365)
                      IN  IF ~q.some THEN None ELSE Some(AsU64(q.val))

\* Mutant: the pool and vault accounts are loaded with init_if_needed.
Initialize_accounts_reusable(ctx) == "Ok"

(***************************************************************************)
(* Staking program: initialize                                             *)
(***************************************************************************)
\* #[derive(Accounts)] Initialize: `init` of the pool and vault PDAs.
Initialize_accounts(ctx) ==
    IF pool.is_initialized \/ VaultKey \in DOMAIN token_accounts
    THEN "AccountAlreadyInUse" ELSE "Ok"

initialize(ctx, reward_rate_30, reward_rate_60, reward_rate_90) ==
    IF Initialize_accounts(ctx) # "Ok" THEN Err(Initialize_accounts(ctx))
    ELSE Ok([is_initialized |-> TRUE,
             authority |-> ctx.authority,
             stake_mint |-> ctx.stake_mint,
             reward_mint |-> ctx.reward_mint,
             pool_vault |-> VaultKey,
             total_staked |-> U64(0),
             total_stakers |-> 0,
             reward_rate_30 |-> reward_rate_30,
             reward_rate_60 |-> reward_rate_60,
             reward_rate_90 |-> reward_rate_90,
             is_paused |-> FALSE],
            [id \in DOMAIN token_accounts \cup {VaultKey} |->
                IF id = VaultKey
                THEN [owner |-> PoolKey, mint |-> ctx.stake_mint, amount |-> U64(0)]
                ELSE token_accounts[id]],
            user_stakes, <<>>, NoEvent)

(***************************************************************************)
(* Staking program: stake                                                  *)
(***************************************************************************)
\* PDA of the UserStake account a stake creates: seeds = [b"stake", user, now].
stake_address(user, now) == <<user, now>>

\* Mutant: the UserStake account is loaded with init_if_needed.
Stake_accounts_reusing_record(ctx) ==
    IF ~pool.is_initialized THEN "AccountNotInitialized"
    ELSE IF token_accounts[ctx.user_token_account].mint # pool.stake_mint THEN "ConstraintRaw"
    ELSE IF token_accounts[ctx.user_token_account].owner # ctx.user THEN "ConstraintRaw"
    ELSE IF token_accounts[VaultKey].mint # pool.stake_mint THEN "ConstraintRaw"
    ELSE "Ok"

\* #[derive(Accounts)] Stake
Stake_accounts(ctx) ==
    IF ~pool.is_initialized THEN "AccountNotInitialized"
    ELSE IF stake_address(ctx.user, clock) \in StakeKeys THEN "AccountAlreadyInUse"
    ELSE IF token_accounts[ctx.user_token_account].mint # pool.stake_mint THEN "ConstraintRaw"
    ELSE IF token_accounts[ctx.user_token_account].owner # ctx.user THEN "ConstraintRaw"
    ELSE IF token_accounts[VaultKey].mint # pool.stake_mint THEN "ConstraintRaw"
    ELSE "Ok"

\* Mutant: the amount is not examined.
amount_is_zero_unchecked(amount) == FALSE

\* require!(amount > 0, StakingError::InvalidAmount)
amount_is_zero(amount) == IsZero(amount)

lock_period_valid(lock_days) == lock_days = 30 \/ lock_days = 60 \/ lock_days = 90

\* Mutant: the pause flag is not consulted.
stake_paused_ignored(p) == FALSE

\* require!(!pool.is_paused, StakingError::PoolPaused)
stake_paused(p) == p.is_paused

\* match lock_days { 30 => .., 60 => .., 90 => .., _ => return Err(..) }
reward_rate_of(p, lock_days) ==
    CASE lock_days = 30 -> Some(p.reward_rate_30)
      [] lock_days = 60 -> Some(p.reward_rate_60)
      [] lock_days = 90 -> Some(p.reward_rate_90)
      [] OTHER -> None

\* The UserStake record written by stake.
new_user_stake(user, amount, now, lock_days, reward_amount) ==
    [user |-> user,
     pool |-> PoolKey,
     amount |-> amount,
     stake_timestamp |-> now,
     lock_days |-> lock_days,
     unlock_timestamp |-> now + (lock_days * 24 * 60 * 60),
     reward_amount |-> reward_amount,
     is_claimed |-> FALSE]

\* Pool statistics after a stake; None when a checked_add(..).unwrap() panics.
pool_after_stake(p, amount) ==
    LET total == checked_add(p.total_staked, amount)
    IN  IF ~total.some THEN None
        ELSE Some([p EXCEPT !.total_staked = total.val,
                            !.total_stakers = p.total_stakers + 1])

stake(ctx, amount, lock_days) ==
    IF Stake_accounts(ctx) # "Ok" THEN Err(Stake_accounts(ctx))
    ELSE IF amount_is_zero(amount) THEN Err("InvalidAmount")
    ELSE IF ~lock_period_valid(lock_days) THEN Err("InvalidLockPeriod")
    ELSE IF stake_paused(pool) THEN Err("PoolPaused")
    ELSE
    LET t == token_transfer(token_accounts, ctx.user_token_account, VaultKey, ctx.user, amount)
    IN  IF is_err(t) THEN Err(t.err)
        ELSE
        LET reward_rate == reward_rate_of(pool, lock_days)
        IN  IF ~reward_rate.some THEN Err("InvalidLockPeriod")
            ELSE
            LET reward_amount == calculate_reward(amount, reward_rate.val, lock_days)
            IN  IF ~reward_amount.some THEN Err("MathOverflow")
                ELSE
                LET key == stake_address(ctx.user, clock)
                    rec == new_user_stake(ctx.user, amount, clock, lock_days, reward_amount.val)
                    p2 == pool_after_stake(pool, amount)
                IN  IF ~p2.some THEN Err("ProgramFailedToComplete")
                    ELSE Ok(p2.val, t.ta,
                            [k \in StakeKeys \cup {key} |->
                                IF k = key THEN rec ELSE user_stakes[k]],
                            <<Transfer(ctx.user_token_account, VaultKey, amount)>>,
                            [name |-> "Staked", user |-> ctx.user, amount |-> amount,
                             lock_days |-> lock_days, reward_amount |-> reward_amount.val,
                             unlock_timestamp |-> rec.unlock_timestamp, timestamp |-> clock])

(***************************************************************************)
(* Staking program: unstake and emergency_unstake                          *)
(***************************************************************************)
\* Mutant: the position's user field is not compared with the signer.
Unstake_accounts_any_signer(ctx) ==
    IF ~pool.is_initialized THEN "AccountNotInitialized"
    ELSE IF ctx.user_stake \notin StakeKeys THEN "AccountNotInitialized"
    ELSE IF user_stakes[ctx.user_stake].pool # PoolKey THEN "ConstraintRaw"
    ELSE IF token_accounts[ctx.user_token_account].mint # pool.stake_mint THEN "ConstraintRaw"
    ELSE IF token_accounts[ctx.user_token_account].owner # ctx.user THEN "ConstraintRaw"
    ELSE IF token_accounts[VaultKey].mint # pool.stake_mint THEN "ConstraintRaw"
    ELSE "Ok"

\* #[derive(Accounts)] Unstake (shared by unstake and emergency_unstake)
Unstake_accounts(ctx) ==
    IF ~pool.is_initialized THEN "AccountNotInitialized"
    ELSE IF ctx.user_stake \notin StakeKeys THEN "AccountNotInitialized"
    ELSE IF user_stakes[ctx.user_stake].user # ctx.user THEN "ConstraintRaw"
    ELSE IF user_stakes[ctx.user_stake].pool # PoolKey THEN "ConstraintRaw"
    ELSE IF token_accounts[ctx.user_token_account].mint # pool.stake_mint THEN "ConstraintRaw"
    ELSE IF token_accounts[ctx.user_token_account].owner # ctx.user THEN "ConstraintRaw"
    ELSE IF token_accounts[VaultKey].mint # pool.stake_mint THEN "ConstraintRaw"
    ELSE "Ok"

\* Mutant: the claimed flag is not consulted.
already_claimed_unchecked(us) == FALSE

\* require!(!user_stake.is_claimed, StakingError::AlreadyClaimed)
already_claimed(us) == us.is_claimed

\* Mutant: the lock is measured against the time of the stake.
lock_expired_since_stake(now, us) == now >= us.stake_timestamp

\* Mutant: a paused pool keeps every position locked.
lock_expired_unless_paused(now, us) == ~pool.is_paused /\ now >= us.unlock_timestamp

\* require!(clock.unix_timestamp >= user_stake.unlock_timestamp, StillLocked)
lock_expired(now, us) == now >= us.unlock_timestamp

\* The amount emergency_unstake returns: the principal.
emergency_payout_of(us) == us.amount

\* Mutant: the payout leaves the reward out.
total_payout_without_reward(us) == Some(us.amount)

\* total_payout of unstake; None when checked_add(..).unwrap() panics.
total_payout_of(us) == checked_add(us.amount, us.reward_amount)

\* The UserStake record as unstake leaves it.
user_stake_after_unstake(us) == [us EXCEPT !.is_claimed = TRUE]

\* The UserStake record as emergency_unstake leaves it.
\* Mutant: the emergency exit clears the principal of the record as well.
user_stake_after_emergency_emptied(us) ==
    [us EXCEPT !.is_claimed = TRUE, !.reward_amount = U64(0), !.amount = U64(0)]

user_stake_after_emergency(us) == [us EXCEPT !.is_claimed = TRUE, !.reward_amount = U64(0)]

\* Mutant: closing a position leaves total_stakers as it was.
pool_after_close_keeping_stakers(p, staked_amount) ==
    LET total == checked_sub(p.total_staked, staked_amount)
    IN  IF ~total.some THEN None ELSE Some([p EXCEPT !.total_staked = total.val])

\* Mutant: closing a position leaves total_staked as it was.
pool_after_close_keeping_total(p, staked_amount) ==
    Some([p EXCEPT !.total_stakers = IF p.total_stakers = 0 THEN 0 ELSE p.total_stakers - 1])

\* Pool statistics after a position closes; None when checked_sub(..).unwrap() panics.
pool_after_close(p, staked_amount) ==
    LET total == checked_sub(p.total_staked, staked_amount)
    IN  IF ~total.some THEN None
        ELSE Some([p EXCEPT !.total_staked = total.val,
                            !.total_stakers = IF p.total_stakers = 0 THEN 0
                                              ELSE p.total_stakers - 1])

unstake(ctx) ==
    IF Unstake_accounts(ctx) # "Ok" THEN Err(Unstake_accounts(ctx))
    ELSE
    LET us == user_stakes[ctx.user_stake]
    IN  IF already_claimed(us) THEN Err("AlreadyClaimed")
        ELSE IF ~lock_expired(clock, us) THEN Err("StillLocked")
        ELSE
        LET total_payout == total_payout_of(us)
        IN  IF ~total_payout.some THEN Err("ProgramFailedToComplete")
            ELSE
            LET t == token_transfer(token_accounts, VaultKey, ctx.user_token_account,
                                    PoolKey, total_payout.val)
            IN  IF is_err(t) THEN Err(t.err)
                ELSE
                LET p2 == pool_after_close(pool, us.amount)
                IN  IF ~p2.some THEN Err("ProgramFailedToComplete")
                    ELSE Ok(p2.val, t.ta,
                            [user_stakes EXCEPT ![ctx.user_stake] = user_stake_after_unstake(us)],
                            <<Transfer(VaultKey, ctx.user_token_account, total_payout.val)>>,
                            [name |-> "Unstaked", user |-> ctx.user,
                             staked_amount |-> us.amount, reward_amount |-> us.reward_amount,
                             total_payout |-> total_payout.val, timestamp |-> clock])

emergency_unstake(ctx) ==
    IF Unstake_accounts(ctx) # "Ok" THEN Err(Unstake_accounts(ctx))
    ELSE
    LET us == user_stakes[ctx.user_stake]
    IN  IF already_claimed(us) THEN Err("AlreadyClaimed")
        ELSE
        LET staked_amount == emergency_payout_of(us)
            t == token_transfer(token_accounts, VaultKey, ctx.user_token_account,
                                PoolKey, staked_amount)
        IN  IF is_err(t) THEN Err(t.err)
            ELSE
            LET p2 == pool_after_close(pool, staked_amount)
            IN  IF ~p2.some THEN Err("ProgramFailedToComplete")
                ELSE Ok(p2.val, t.ta,
                        [user_stakes EXCEPT ![ctx.user_stake] = user_stake_after_emergency(us)],
                        <<Transfer(VaultKey, ctx.user_token_account, staked_amount)>>,
                        [name |-> "EmergencyUnstaked", user |-> ctx.user,
                         staked_amount |-> staked_amount,
                         forfeited_rewards |-> us.reward_amount, timestamp |-> clock])

(***************************************************************************)
(* Staking program: get_stake_info                                         *)
(***************************************************************************)
\* Result<StakeInfo> of the view instruction.
InfoOk(v) == [err |-> "Ok", value |-> v]
InfoErr(e) == [err |-> e, value |-> "none"]

\* #[derive(Accounts)] GetStakeInfo: any UserStake account, no seeds, no signer.
GetStakeInfo_accounts(ctx) ==
    IF ctx.user_stake \notin StakeKeys THEN "AccountNotInitialized" ELSE "Ok"

\* if clock.unix_timestamp >= unlock_timestamp { 0 } else { unlock_timestamp - now }
time_remaining_of(now, us) ==
    IF now >= us.unlock_timestamp THEN 0 ELSE us.unlock_timestamp - now

\* Mutant: the unlock instant itself still counts as locked.
is_unlocked_after(now, us) == now > us.unlock_timestamp

\* is_unlocked: clock.unix_timestamp >= user_stake.unlock_timestamp
is_unlocked_of(now, us) == now >= us.unlock_timestamp

get_stake_info(ctx) ==
    IF GetStakeInfo_accounts(ctx) # "Ok" THEN InfoErr(GetStakeInfo_accounts(ctx))
    ELSE
    LET us == user_stakes[ctx.user_stake]
    IN  InfoOk([amount |-> us.amount,
                reward_amount |-> us.reward_amount,
                lock_days |-> us.lock_days,
                unlock_timestamp |-> us.unlock_timestamp,
                time_remaining_seconds |-> time_remaining_of(clock, us),
                is_unlocked |-> is_unlocked_of(clock, us),
                is_claimed |-> us.is_claimed])

(***************************************************************************)
(* Staking program: admin instructions                                     *)
(***************************************************************************)
\* #[derive(Accounts)] AdminAction
AdminAction_accounts(ctx) ==
    IF ~pool.is_initialized THEN "AccountNotInitialized" ELSE "Ok"

\* Mutant: any signer passes for the pool authority.
is_pool_authority_anyone(signer) == TRUE

\* require!(ctx.accounts.authority.key() == pool.authority, Unauthorized)
is_pool_authority(signer) == signer = pool.authority

set_paused(ctx, paused) ==
    IF AdminAction_accounts(ctx) # "Ok" THEN Err(AdminAction_accounts(ctx))
    ELSE IF ~is_pool_authority(ctx.authority) THEN Err("Unauthorized")
    ELSE Ok([pool EXCEPT !.is_paused = paused], token_accounts, user_stakes, <<>>, NoEvent)

\* Mutant: new rates are applied to the open positions too.
update_reward_rates_reindexing(ctx, rate_30, rate_60, rate_90) ==
    IF AdminAction_accounts(ctx) # "Ok" THEN Err(AdminAction_accounts(ctx))
    ELSE IF ~is_pool_authority(ctx.authority) THEN Err("Unauthorized")
    ELSE LET p2 == [pool EXCEPT !.reward_rate_30 = rate_30,
                                !.reward_rate_60 = rate_60,
                                !.reward_rate_90 = rate_90]
         IN  Ok(p2, token_accounts,
                [k \in StakeKeys |->
                    IF user_stakes[k].is_claimed THEN user_stakes[k]
                    ELSE [user_stakes[k] EXCEPT !.reward_amount =
                            calculate_reward(user_stakes[k].amount,
                                             reward_rate_of(p2, user_stakes[k].lock_days).val,
                                             user_stakes[k].lock_days).val]],
                <<>>, NoEvent)

update_reward_rates(ctx, rate_30, rate_60, rate_90) ==
    IF AdminAction_accounts(ctx) # "Ok" THEN Err(AdminAction_accounts(ctx))
    ELSE IF ~is_pool_authority(ctx.authority) THEN Err("Unauthorized")
    ELSE Ok([pool EXCEPT !.reward_rate_30 = rate_30,
                         !.reward_rate_60 = rate_60,
                         !.reward_rate_90 = rate_90],
            token_accounts, user_stakes, <<>>, NoEvent)

\* #[derive(Accounts)] FundRewards
FundRewards_accounts(ctx) ==
    IF ~pool.is_initialized THEN "AccountNotInitialized"
    ELSE IF token_accounts[ctx.authority_token_account].mint # pool.stake_mint THEN "ConstraintRaw"
    ELSE IF token_accounts[ctx.authority_token_account].owner # ctx.authority THEN "ConstraintRaw"
    ELSE "Ok"

fund_rewards(ctx, amount) ==
    IF FundRewards_accounts(ctx) # "Ok" THEN Err(FundRewards_accounts(ctx))
    ELSE IF ~is_pool_authority(ctx.authority) THEN Err("Unauthorized")
    ELSE
    LET t == token_transfer(token_accounts, ctx.authority_token_account, VaultKey,
                            ctx.authority, amount)
    IN  IF is_err(t) THEN Err(t.err)
        ELSE Ok(pool, t.ta, user_stakes,
                <<Transfer(ctx.authority_token_account, VaultKey, amount)>>, NoEvent)

(***************************************************************************)
(* NFT program: accounts                                                   *)
(***************************************************************************)
ConfigKey == "config"                \* PDA seeds = [b"config"]
Treasury == "treasury"

\* The ProgramConfig account before `initialize` (no data).
NoConfig ==
    [is_initialized |-> FALSE, authority |-> NoKey, treasury |-> NoKey,
     dregan_mint |-> NoKey, is_paused |-> FALSE, total_minted |-> 0]

TierKeys == DOMAIN tiers

\* A String of n bytes.
Str(n) == [i \in 1..n |-> 120]

\* Instruction arguments the model draws from.
TierIdChoices == {0, 1, 2, 3, 4}
NameChoices == {Str(6), Str(33)}
UriChoices == {Str(200), Str(201)}
PriceChoices == {U64(100), U64(500)}
SupplyChoices == {1}

NftOk(c, t) == [err |-> "Ok", config |-> c, tiers |-> t]

\* A failed instruction commits no account write.
NftErr(e) == [err |-> e, config |-> config, tiers |-> tiers]

(***************************************************************************)
(* NFT program: initialize and create_tier                                 *)
(***************************************************************************)
\* #[derive(Accounts)] Initialize: `init` of the config PDA.
NftInitialize_accounts(ctx) ==
    IF config.is_initialized THEN "AccountAlreadyInUse" ELSE "Ok"

nft_initialize(ctx, treasury_wallet) ==
    IF NftInitialize_accounts(ctx) # "Ok" THEN NftErr(NftInitialize_accounts(ctx))
    ELSE NftOk([is_initialized |-> TRUE,
                authority |-> ctx.authority,
                treasury |-> treasury_wallet,
                dregan_mint |-> ctx.dregan_mint,
                is_paused |-> FALSE,
                total_minted |-> 0],
               tiers)

\* constraint = authority.key() == config.authority @ DreganNftError::Unauthorized
is_config_authority(signer) == signer = config.authority

\* #[derive(Accounts)] CreateTier: `init` of the tier PDA, then the constraint on config.
CreateTier_accounts(ctx, tier_id) ==
    IF ~config.is_initialized THEN "AccountNotInitialized"
    ELSE IF tier_id \in TierKeys THEN "AccountAlreadyInUse"
    ELSE IF ~is_config_authority(ctx.authority) THEN "Unauthorized"
    ELSE "Ok"

\* Mutant: any tier_id is accepted.
tier_id_unchecked(tier_id) == TRUE

tier_id_valid(tier_id) == tier_id >= 1 /\ tier_id <= 3

\* The TierConfig record written by create_tier.
new_tier(tier_id, tier_name, price, max_supply, uri, nft_mint) ==
    [tier_id |-> tier_id,
     tier_name |-> tier_name,
     price |-> price,
     max_supply |-> max_supply,
     current_supply |-> 0,
     nft_mint |-> nft_mint,
     metadata_uri |-> uri,
     is_active |-> TRUE]

create_tier(ctx, tier_id, tier_name, price, max_supply, uri) ==
    IF CreateTier_accounts(ctx, tier_id) # "Ok" THEN NftErr(CreateTier_accounts(ctx, tier_id))
    ELSE IF ~tier_id_valid(tier_id) THEN NftErr("InvalidTier")
    ELSE IF ~(Len(tier_name) <= 32) THEN NftErr("NameTooLong")
    ELSE IF ~(Len(uri) <= 200) THEN NftErr("UriTooLong")
    ELSE NftOk(config,
               [t \in TierKeys \cup {tier_id} |->
                   IF t = tier_id
                   THEN new_tier(tier_id, tier_name, price, max_supply, uri, ctx.nft_mint)
                   ELSE tiers[t]])

(***************************************************************************)
(* NFT program: admin instructions                                         *)
(***************************************************************************)
\* #[derive(Accounts)] AdminAction
NftAdminAction_accounts(ctx) ==
    IF ~config.is_initialized THEN "AccountNotInitialized" ELSE "Ok"

\* #[derive(Accounts)] UpdateTier
UpdateTier_accounts(ctx) ==
    IF ~config.is_initialized THEN "AccountNotInitialized"
    ELSE IF ctx.tier \notin TierKeys THEN "AccountNotInitialized"
    ELSE "Ok"

nft_set_paused(ctx, paused) ==
    IF NftAdminAction_accounts(ctx) # "Ok" THEN NftErr(NftAdminAction_accounts(ctx))
    ELSE IF ~is_config_authority(ctx.authority) THEN NftErr("Unauthorized")
    ELSE NftOk([config EXCEPT !.is_paused = paused], tiers)

set_tier_active(ctx, is_active) ==
    IF UpdateTier_accounts(ctx) # "Ok" THEN NftErr(UpdateTier_accounts(ctx))
    ELSE IF ~is_config_authority(ctx.authority) THEN NftErr("Unauthorized")
    ELSE NftOk(config, [tiers EXCEPT ![ctx.tier].is_active = is_active])

update_tier_price(ctx, new_price) ==
    IF UpdateTier_accounts(ctx) # "Ok" THEN NftErr(UpdateTier_accounts(ctx))
    ELSE IF ~is_config_authority(ctx.authority) THEN NftErr("Unauthorized")
    ELSE NftOk(config, [tiers EXCEPT ![ctx.tier].price = new_price])

(***************************************************************************)
(* NFT program: purchase_nft                                               *)
(***************************************************************************)
HolderKeys == DOMAIN holders

\* The treasury's DREGAN token account, next to the wallets' accounts.
TreasuryAccount == "treasury_ata"
NftWalletAccounts ==
    [id \in WalletAccountIds \cup {TreasuryAccount} |->
        IF id = TreasuryAccount
        THEN [owner |-> Treasury, mint |-> StakeMint, amount |-> U64(0)]
        ELSE WalletAccounts[id]]

\* The mint authority of an NFT mint.  create_tier takes any Mint account; the
\* mint named for tier 3 was never handed to the config PDA.
mint_authority(mint) == IF mint = <<"nft_mint", 3>> THEN "alice" ELSE ConfigKey

\* seeds = [b"holder", buyer.key().as_ref(), &[tier_id]]
holder_address(buyer, tier_id) == <<buyer, tier_id>>

\* The associated token account of `owner` for `mint`.
nft_address(owner, mint) == <<owner, mint>>

\* The balance of an NFT account, 0 for one not yet created.
nft_balance(na, address) == IF address \in DOMAIN na THEN na[address] ELSE 0

PurchaseOk(t, h, na, ta, xfers, mints) ==
    [err |-> "Ok", tiers |-> t, holders |-> h, nft_accounts |-> na,
     token_accounts |-> ta, transfers |-> xfers, minted |-> mints]

\* A failed purchase commits no account write.
PurchaseErr(e) ==
    [err |-> e, tiers |-> tiers, holders |-> holders, nft_accounts |-> nft_accounts,
     token_accounts |-> token_accounts, transfers |-> <<>>, minted |-> <<>>]

\* Mutant: the holder record is loaded with init_if_needed.
PurchaseNft_accounts_reusing_record(ctx, tier_id) ==
    IF ~config.is_initialized THEN "AccountNotInitialized"
    ELSE IF ctx.tier \notin TierKeys THEN "AccountNotInitialized"
    ELSE IF ctx.tier # tier_id THEN "ConstraintSeeds"
    ELSE IF token_accounts[ctx.buyer_token_account].mint # config.dregan_mint
         THEN "ConstraintRaw"
    ELSE IF token_accounts[ctx.buyer_token_account].owner # ctx.buyer THEN "ConstraintRaw"
    ELSE IF token_accounts[ctx.treasury_token_account].mint # config.dregan_mint
         THEN "ConstraintRaw"
    ELSE IF token_accounts[ctx.treasury_token_account].owner # config.treasury
         THEN "ConstraintRaw"
    ELSE IF ctx.nft_mint # tiers[ctx.tier].nft_mint THEN "ConstraintRaw"
    ELSE "Ok"

\* #[derive(Accounts)] PurchaseNft: the accounts are loaded in order (`init` of
\* the holder record among them), then the constraints are checked.
PurchaseNft_accounts(ctx, tier_id) ==
    IF ~config.is_initialized THEN "AccountNotInitialized"
    ELSE IF ctx.tier \notin TierKeys THEN "AccountNotInitialized"
    ELSE IF holder_address(ctx.buyer, tier_id) \in HolderKeys THEN "AccountAlreadyInUse"
    ELSE IF ctx.tier # tier_id THEN "ConstraintSeeds"
    ELSE IF token_accounts[ctx.buyer_token_account].mint # config.dregan_mint
         THEN "ConstraintRaw"
    ELSE IF token_accounts[ctx.buyer_token_account].owner # ctx.buyer THEN "ConstraintRaw"
    ELSE IF token_accounts[ctx.treasury_token_account].mint # config.dregan_mint
         THEN "ConstraintRaw"
    ELSE IF token_accounts[ctx.treasury_token_account].owner # config.treasury
         THEN "ConstraintRaw"
    ELSE IF ctx.nft_mint # tiers[ctx.tier].nft_mint THEN "ConstraintRaw"
    ELSE "Ok"

\* Mutant: two tokens are minted.
mint_to_twice(na, mint, to, authority) ==
    IF mint_authority(mint) # authority THEN [err |-> "OwnerMismatch", na |-> na]
    ELSE [err |-> "Ok",
          na |-> [a \in DOMAIN na \cup {to} |-> nft_balance(na, a) + (IF a = to THEN 2 ELSE 0)]]

\* token::mint_to of one token, signed by `authority`.
mint_to(na, mint, to, authority) ==
    IF mint_authority(mint) # authority THEN [err |-> "OwnerMismatch", na |-> na]
    ELSE [err |-> "Ok",
          na |-> [a \in DOMAIN na \cup {to} |-> nft_balance(na, a) + (IF a = to THEN 1 ELSE 0)]]

MintTo(mint, to, amount) == [mint |-> mint, to |-> to, amount |-> amount]

\* Mutant: the supply is not compared with the cap.
sold_out_never(tier) == FALSE

\* require!(tier.current_supply < tier.max_supply, DreganNftError::SoldOut)
sold_out(tier) == ~(tier.current_supply < tier.max_supply)

\* The HolderRecord written by purchase_nft.
new_holder(buyer, tier_id, nft_mint, now, price) ==
    [holder |-> buyer,
     tier_id |-> tier_id,
     nft_mint |-> nft_mint,
     purchase_timestamp |-> now,
     price_paid |-> price]

purchase_nft(ctx, tier_id) ==
    IF PurchaseNft_accounts(ctx, tier_id) # "Ok"
    THEN PurchaseErr(PurchaseNft_accounts(ctx, tier_id))
    ELSE
    LET tier == tiers[ctx.tier]
    IN  IF config.is_paused THEN PurchaseErr("ProgramPaused")
        ELSE IF ~tier.is_active THEN PurchaseErr("TierNotActive")
        ELSE IF tier.tier_id # tier_id THEN PurchaseErr("InvalidTier")
        ELSE IF sold_out(tier) THEN PurchaseErr("SoldOut")
        ELSE
        LET price == tier.price
            t == token_transfer(token_accounts, ctx.buyer_token_account,
                                ctx.treasury_token_account, ctx.buyer, price)
        IN  IF is_err(t) THEN PurchaseErr(t.err)
            ELSE
            LET to == nft_address(ctx.buyer, ctx.nft_mint)
                m == mint_to(nft_accounts, ctx.nft_mint, to, ConfigKey)
            IN  IF is_err(m) THEN PurchaseErr(m.err)
                ELSE
                LET key == holder_address(ctx.buyer, tier_id)
                IN  PurchaseOk(
                        [tiers EXCEPT ![ctx.tier].current_supply = @ + 1],
                        [h \in HolderKeys \cup {key} |->
                            IF h = key
                            THEN new_holder(ctx.buyer, tier_id, ctx.nft_mint, clock, price)
                            ELSE holders[h]],
                        m.na, t.ta,
                        <<Transfer(ctx.buyer_token_account, ctx.treasury_token_account,
                                   price)>>,
                        <<MintTo(ctx.nft_mint, to, 1)>>)

(***************************************************************************)
(* NFT program: verify_holder and get_access_level                         *)
(***************************************************************************)
\* A wallet that receives NFTs and never buys one.
Collector == "carol"

\* The owner and the mint of the token account at an NFT address.
nft_owner(address) == address[1]
nft_mint_of(address) == address[2]

\* Result<bool> / Result<u8> of a view instruction.
ViewOk(v) == [err |-> "Ok", value |-> v]
ViewErr(e) == [err |-> e, value |-> "none"]

\* #[derive(Accounts)] VerifyHolder: the accounts are loaded, then the seeds of
\* the holder record and the constraints on the NFT account are checked.
VerifyHolder_accounts(ctx, tier_id) ==
    IF ctx.holder_record \notin HolderKeys THEN "AccountNotInitialized"
    ELSE IF ctx.nft_account \notin DOMAIN nft_accounts THEN "AccountNotInitialized"
    ELSE IF ctx.holder_record # holder_address(ctx.wallet, tier_id) THEN "ConstraintSeeds"
    ELSE IF nft_mint_of(ctx.nft_account) # holders[ctx.holder_record].nft_mint
         THEN "ConstraintRaw"
    ELSE IF nft_owner(ctx.nft_account) # ctx.wallet THEN "ConstraintRaw"
    ELSE "Ok"

\* #[derive(Accounts)] GetAccessLevel: the seeds take the tier_id of the record.
GetAccessLevel_accounts(ctx) ==
    IF ctx.holder_record \notin HolderKeys THEN "AccountNotInitialized"
    ELSE IF ctx.nft_account \notin DOMAIN nft_accounts THEN "AccountNotInitialized"
    ELSE IF ctx.holder_record #
              holder_address(ctx.wallet, holders[ctx.holder_record].tier_id)
         THEN "ConstraintSeeds"
    ELSE IF nft_mint_of(ctx.nft_account) # holders[ctx.holder_record].nft_mint
         THEN "ConstraintRaw"
    ELSE IF nft_owner(ctx.nft_account) # ctx.wallet THEN "ConstraintRaw"
    ELSE "Ok"

\* Mutant: the balance of the NFT account is not consulted.
holds_nft_by_record(amount) == TRUE

\* nft_account.amount >= 1
holds_nft(amount) == amount >= 1

verify_holder(ctx, tier_id) ==
    IF VerifyHolder_accounts(ctx, tier_id) # "Ok"
    THEN ViewErr(VerifyHolder_accounts(ctx, tier_id))
    ELSE
    LET holder == holders[ctx.holder_record]
        is_valid == /\ holder.holder = ctx.wallet
                    /\ holder.tier_id = tier_id
                    /\ holds_nft(nft_accounts[ctx.nft_account])
                    /\ nft_owner(ctx.nft_account) = ctx.wallet
    IN  ViewOk(is_valid)

get_access_level(ctx) ==
    IF GetAccessLevel_accounts(ctx) # "Ok" THEN ViewErr(GetAccessLevel_accounts(ctx))
    ELSE
    LET holder == holders[ctx.holder_record]
    IN  IF holder.holder = ctx.wallet /\ holds_nft(nft_accounts[ctx.nft_account])
        THEN ViewOk(holder.tier_id)
        ELSE ViewOk(0)

\* token::transfer of one NFT from `owner` to the token account of `to` for
\* the same mint, signed by `owner` (the SPL token program, outside this one).
nft_transfer(na, owner, mint, to) ==
    LET from == nft_address(owner, mint)
        dest == nft_address(to, mint)
    IN  IF from \notin DOMAIN na THEN [err |-> "AccountNotInitialized", na |-> na]
        ELSE IF na[from] < 1 THEN [err |-> "InsufficientFunds", na |-> na]
        ELSE IF from = dest THEN [err |-> "Ok", na |-> na]
        ELSE [err |-> "Ok",
              na |-> [a \in DOMAIN na \cup {dest} |->
                         IF a = from THEN na[from] - 1
                         ELSE IF a = dest THEN nft_balance(na, dest) + 1
                         ELSE na[a]]]

(***************************************************************************)
(* Instructions as actions                                                 *)
(***************************************************************************)
\* Commit the outcome of a staking instruction.
Commit(r) ==
    /\ pool' = r.pool
    /\ token_accounts' = r.token_accounts
    /\ user_stakes' = r.user_stakes
    /\ UNCHANGED <<clock, config, tiers, holders, nft_accounts>>

\* Commit the outcome of an NFT instruction.
NftCommit(r) ==
    /\ config' = r.config
    /\ tiers' = r.tiers
    /\ UNCHANGED <<clock, pool, token_accounts, user_stakes, holders, nft_accounts>>

InitializeCtx(authority) ==
    [authority |-> authority, stake_mint |-> StakeMint, reward_mint |-> StakeMint]
StakeCtx(user, uta) == [user |-> user, user_token_account |-> uta]
UnstakeCtx(user, key, uta) ==
    [user |-> user, user_stake |-> key, user_token_account |-> uta]
AdminCtx(authority) == [authority |-> authority]
FundCtx(authority, ata) == [authority |-> authority, authority_token_account |-> ata]

Initialize(authority, rates) ==
    Commit(initialize(InitializeCtx(authority), rates[1], rates[2], rates[3]))

Stake(user, uta, amount, lock_days) ==
    /\ Cardinality(StakeKeys) < MaxPositions
    /\ Commit(stake(StakeCtx(user, uta), amount, lock_days))

Unstake(user, key, uta) == Commit(unstake(UnstakeCtx(user, key, uta)))

EmergencyUnstake(user, key, uta) == Commit(emergency_unstake(UnstakeCtx(user, key, uta)))

SetPaused(authority, paused) == Commit(set_paused(AdminCtx(authority), paused))

UpdateRewardRates(authority, rates) ==
    Commit(update_reward_rates(AdminCtx(authority), rates[1], rates[2], rates[3]))

FundRewards(authority, ata, amount) == Commit(fund_rewards(FundCtx(authority, ata), amount))

GetStakeInfoCtx(key) == [user_stake |-> key]

\* The view instruction writes no account.
GetStakeInfo(key) ==
    /\ get_stake_info(GetStakeInfoCtx(key)).err = "Ok"
    /\ UNCHANGED vars

\* The ledger clock advances.
Tick ==
    /\ clock < StartTime + MaxTicks * TickSecs
    /\ clock' = clock + TickSecs
    /\ UNCHANGED <<pool, token_accounts, user_stakes, config, tiers, holders, nft_accounts>>

NftInitializeCtx(authority) == [authority |-> authority, dregan_mint |-> StakeMint]
CreateTierCtx(authority, tier_id) ==
    [authority |-> authority, nft_mint |-> <<"nft_mint", tier_id>>]
UpdateTierCtx(authority, tier) == [authority |-> authority, tier |-> tier]

NftInitialize(authority) == NftCommit(nft_initialize(NftInitializeCtx(authority), Treasury))

CreateTier(authority, tier_id, tier_name, price, max_supply, uri) ==
    NftCommit(create_tier(CreateTierCtx(authority, tier_id), tier_id, tier_name, price,
                          max_supply, uri))

NftSetPaused(authority, paused) == NftCommit(nft_set_paused(AdminCtx(authority), paused))

SetTierActive(authority, tier, is_active) ==
    NftCommit(set_tier_active(UpdateTierCtx(authority, tier), is_active))

UpdateTierPrice(authority, tier, new_price) ==
    NftCommit(update_tier_price(UpdateTierCtx(authority, tier), new_price))

\* Commit the outcome of purchase_nft.
PurchaseCommit(r) ==
    /\ tiers' = r.tiers
    /\ holders' = r.holders
    /\ nft_accounts' = r.nft_accounts
    /\ token_accounts' = r.token_accounts
    /\ UNCHANGED <<clock, pool, user_stakes, config>>

PurchaseNftCtx(buyer, tier, buyer_ta, treasury_ta, nft_mint) ==
    [buyer |-> buyer, tier |-> tier, buyer_token_account |-> buyer_ta,
     treasury_token_account |-> treasury_ta, nft_mint |-> nft_mint]

PurchaseNft(buyer, tier, tier_id, buyer_ta, treasury_ta, nft_mint) ==
    PurchaseCommit(purchase_nft(PurchaseNftCtx(buyer, tier, buyer_ta, treasury_ta, nft_mint),
                                tier_id))

ViewCtx(wallet, holder_record, nft_account) ==
    [wallet |-> wallet, holder_record |-> holder_record, nft_account |-> nft_account]

\* The view instructions write no account.
VerifyHolder(wallet, holder_record, nft_account, tier_id) ==
    /\ verify_holder(ViewCtx(wallet, holder_record, nft_account), tier_id).err = "Ok"
    /\ UNCHANGED vars

GetAccessLevel(wallet, holder_record, nft_account) ==
    /\ get_access_level(ViewCtx(wallet, holder_record, nft_account)).err = "Ok"
    /\ UNCHANGED vars

\* A wallet hands one NFT to another wallet.
TransferNft(owner, mint, to) ==
    /\ nft_accounts' = nft_transfer(nft_accounts, owner, mint, to).na
    /\ UNCHANGED <<clock, pool, token_accounts, user_stakes, config, tiers, holders>>

(***************************************************************************)
(* Specifications                                                          *)
(***************************************************************************)
InitWith(wallets) ==
    /\ clock = StartTime
    /\ pool = NoPool
    /\ token_accounts = wallets
    /\ user_stakes = [k \in {} |-> 0]
    /\ config = NoConfig
    /\ tiers = [t \in {} |-> 0]
    /\ holders = [h \in {} |-> 0]
    /\ nft_accounts = [a \in {} |-> 0]

Init == InitWith(WalletAccounts)
WideInit == InitWith(WideWalletAccounts)

\* Every key an Unstake context may name as its user_stake account: the
\* existing ones and one at which no account exists.
StakeKeyChoices == StakeKeys \cup {<<"alice", 0>>}

\* Every key an UpdateTier context may name as its tier account.
TierKeyChoices == TierKeys \cup {0}

\* The staking program, the pool being set up by alice.
Next ==
    \/ \E r \in RateTables : Initialize("alice", r)
    \/ \E u \in Identities, ta \in WalletAccountIds, amt \in AmountChoices, d \in LockDayChoices :
          Stake(u, ta, amt, d)
    \/ \E u \in Identities, k \in StakeKeyChoices, ta \in WalletAccountIds : Unstake(u, k, ta)
    \/ \E u \in Identities, k \in StakeKeyChoices, ta \in WalletAccountIds :
          EmergencyUnstake(u, k, ta)
    \/ \E a \in Identities, p \in BOOLEAN : SetPaused(a, p)
    \/ \E a \in Identities, r \in RateTables : UpdateRewardRates(a, r)
    \/ \E a \in Identities, ta \in WalletAccountIds, amt \in AmountChoices :
          FundRewards(a, ta, amt)
    \/ \E k \in StakeKeyChoices : GetStakeInfo(k)
    \/ Tick

Spec == Init /\ [][Next]_vars

\* The staking program with amounts and rates at the far end of their ranges,
\* alice administering the pool and bob staking.
WideNext ==
    \/ \E r \in WideRateTables : Initialize("alice", r)
    \/ \E ta \in WalletAccountIds, amt \in WideAmountChoices, d \in LockDayChoices :
          Stake("bob", ta, amt, d)
    \/ \E u \in Identities, k \in StakeKeyChoices, ta \in WalletAccountIds : Unstake(u, k, ta)
    \/ \E u \in Identities, k \in StakeKeyChoices, ta \in WalletAccountIds :
          EmergencyUnstake(u, k, ta)
    \/ \E a \in Identities, r \in WideRateTables : UpdateRewardRates(a, r)
    \/ \E a \in Identities, p \in BOOLEAN : SetPaused(a, p)
    \/ \E a \in Identities, ta \in WalletAccountIds : FundRewards(a, ta, U64(1000))
    \/ \E k \in StakeKeyChoices : GetStakeInfo(k)
    \/ Tick

WideSpec == WideInit /\ [][WideNext]_vars

\* Arguments and accounts the sale of NFTs draws from.
SaleTierIdChoices == {1, 2, 3}
SaleSupplyChoices == {1, 2}
SaleBuyerAccountIds == {"alice_ata", "bob_ata"}
SaleTreasuryAccountIds == {TreasuryAccount, "bob_ata"}

NftInit == InitWith(NftWalletAccounts)

\* The NFT program with its sale, the program being set up by alice; tiers are
\* created at one price, the price of tier 1 is updated, and alice may hand
\* her NFTs of tier 1 to a collector.
NftNext ==
    \/ NftInitialize("alice")
    \/ \E a \in Identities, t \in SaleTierIdChoices, m \in SaleSupplyChoices :
          CreateTier(a, t, Str(6), U64(100), m, Str(200))
    \/ \E a \in Identities, p \in BOOLEAN : NftSetPaused(a, p)
    \/ \E a \in Identities, t \in TierKeyChoices, act \in BOOLEAN : SetTierActive(a, t, act)
    \/ \E b \in Identities, t \in TierKeyChoices, id \in SaleTierIdChoices,
          bta \in SaleBuyerAccountIds, tta \in SaleTreasuryAccountIds :
          \E mint \in {<<"nft_mint", id>>, <<"nft_mint", 1>>} :
             /\ id \in {t, 1}
             /\ PurchaseNft(b, t, id, bta, tta, mint)
    \/ \E a \in Identities, p \in PriceChoices : UpdateTierPrice(a, 1, p)
    \/ \E w \in Identities, t \in SaleTierIdChoices :
          VerifyHolder(w, holder_address(w, t), nft_address(w, <<"nft_mint", t>>), t)
    \/ \E w \in Identities, t \in SaleTierIdChoices :
          GetAccessLevel(w, holder_address(w, t), nft_address(w, <<"nft_mint", t>>))
    \/ TransferNft("alice", <<"nft_mint", 1>>, Collector)

NftSpec == NftInit /\ [][NftNext]_vars

\* The two programs side by side, either identity setting each of them up; bob
\* stakes and alice buys a tier-1 NFT while the authorities administer.
AdminNext ==
    \/ \E a \in Identities : Initialize(a, <<1000, 1500, 2000>>)
    \/ Stake("bob", "bob_ata", U64(1000), 30)
    \/ \E k \in StakeKeyChoices : Unstake("bob", k, "bob_ata")
    \/ \E k \in StakeKeyChoices : EmergencyUnstake("bob", k, "bob_ata")
    \/ \E k \in StakeKeyChoices : GetStakeInfo(k)
    \/ \E a \in Identities, p \in BOOLEAN : SetPaused(a, p)
    \/ \E a \in Identities, r \in RateTables : UpdateRewardRates(a, r)
    \/ \E a \in Identities, ta \in {"alice_ata", "bob_ata"} : FundRewards(a, ta, U64(1000))
    \/ Tick
    \/ \E a \in Identities : NftInitialize(a)
    \/ \E a \in Identities, t \in {0, 1}, n \in NameChoices, u \in UriChoices :
          CreateTier(a, t, n, U64(100), 1, u)
    \/ \E a \in Identities, p \in BOOLEAN : NftSetPaused(a, p)
    \/ \E a \in Identities, t \in TierKeyChoices, act \in BOOLEAN : SetTierActive(a, t, act)
    \/ \E a \in Identities, t \in TierKeyChoices, p \in PriceChoices : UpdateTierPrice(a, t, p)
    \/ PurchaseNft("alice", 1, 1, "alice_ata", TreasuryAccount, <<"nft_mint", 1>>)
    \/ VerifyHolder("alice", holder_address("alice", 1),
                    nft_address("alice", <<"nft_mint", 1>>), 1)
    \/ GetAccessLevel("alice", holder_address("alice", 1),
                      nft_address("alice", <<"nft_mint", 1>>))

AdminSpec == NftInit /\ [][AdminNext]_vars

(***************************************************************************)
(* Verification: calls and exact arithmetic the properties are stated in   *)
(***************************************************************************)
\* Every Unstake context an instruction may be called with in this state.
UnstakeCalls ==
    {UnstakeCtx(u, k, ta) : u \in Identities, k \in StakeKeyChoices, ta \in WalletAccountIds}

\* Every Stake context and argument list of this state.
StakeCalls ==
    [ctx : {StakeCtx(u, ta) : u \in Identities, ta \in WalletAccountIds},
     amount : AmountChoices \cup WideAmountChoices,
     lock_days : LockDayChoices]

\* The instruction left every account as it found it and moved no token.
NoEffect(r) ==
    /\ r.pool = pool
    /\ r.token_accounts = token_accounts
    /\ r.user_stakes = user_stakes
    /\ r.transfers = <<>>

\* x + y and x - y without a width limit (operands of at most 64 bits).
ExactSum(x, y) == SubSeq(AddCarry(AsU128(x), AsU128(y), 0), 1, U128Bytes)
ExactDiff(x, y) == SubBorrow(AsU128(x), AsU128(y), 0)

\* The sum of the principals of the positions with keys in S, without a width limit.
RECURSIVE SumAmounts(_)
SumAmounts(S) ==
    IF S = {} THEN AsU128(U64(0))
    ELSE LET k == CHOOSE x \in S : TRUE
         IN  SubSeq(AddCarry(AsU128(user_stakes[k].amount), SumAmounts(S \ {k}), 0),
                    1, U128Bytes)

VaultAmount == token_accounts[VaultKey].amount

\* The vault holds at least the principal plus the stored reward of position us.
VaultCovers(us) == Geq(AsU128(VaultAmount), ExactSum(us.amount, us.reward_amount))

(***************************************************************************)
(* C1  No early unlock                                                     *)
(***************************************************************************)
\* C1: for every open position and every clock value strictly below its
\* unlock_timestamp, unstake fails -- with StillLocked when the accounts pass
\* validation -- makes no transfer and leaves position, pool and vault as they were.
NoEarlyUnlock ==
    \A ctx \in UnstakeCalls :
        (/\ ctx.user_stake \in OpenKeys
         /\ clock < user_stakes[ctx.user_stake].unlock_timestamp)
        => LET r == unstake(ctx)
           IN  /\ r.err # "Ok"
               /\ Unstake_accounts(ctx) = "Ok" => r.err = "StillLocked"
               /\ NoEffect(r)

\* A locked open position whose payout the vault could cover is refused to its owner.
EarlyUnlockRefused ==
    \E ctx \in UnstakeCalls :
        /\ ctx.user_stake \in OpenKeys
        /\ clock < user_stakes[ctx.user_stake].unlock_timestamp
        /\ VaultCovers(user_stakes[ctx.user_stake])
        /\ unstake(ctx).err = "StillLocked"

(***************************************************************************)
(* C2  Conservation                                                        *)
(***************************************************************************)
\* C2: pool.total_staked equals the sum of amount over all positions whose
\* is_claimed flag is false, in every reachable state.
Conservation == AsU128(pool.total_staked) = SumAmounts(OpenKeys)

\* An open and a closed position exist side by side.
OpenAndClosedPositions ==
    /\ OpenKeys # {}
    /\ StakeKeys \ OpenKeys # {}
    /\ ~IsZero(pool.total_staked)

(***************************************************************************)
(* C3  A closed position is terminal                                       *)
(***************************************************************************)
\* Every unstake or emergency_unstake on a closed position fails -- with
\* AlreadyClaimed when the accounts pass validation -- and has no effect.
ClosedRefusesCalls ==
    \A ctx \in UnstakeCalls :
        (ctx.user_stake \in StakeKeys /\ user_stakes[ctx.user_stake].is_claimed)
        => /\ unstake(ctx).err # "Ok"
           /\ emergency_unstake(ctx).err # "Ok"
           /\ Unstake_accounts(ctx) = "Ok"
                => /\ unstake(ctx).err = "AlreadyClaimed"
                   /\ emergency_unstake(ctx).err = "AlreadyClaimed"
           /\ NoEffect(unstake(ctx))
           /\ NoEffect(emergency_unstake(ctx))

\* No step removes a position record, and no step changes a closed one.
ClosedStaysClosed ==
    \A k \in StakeKeys :
        /\ k \in DOMAIN user_stakes'
        /\ user_stakes[k].is_claimed => user_stakes'[k] = user_stakes[k]

\* C3: once is_claimed is true it never becomes false again, every later
\* unstake or emergency_unstake on the position fails with AlreadyClaimed
\* without transfer or mutation, and the record is never removed.
ClosedIsTerminal == []ClosedRefusesCalls /\ [][ClosedStaysClosed]_vars

\* The owner of a closed position is refused while the vault still holds the payout.
ClosedPositionRefused ==
    \E ctx \in UnstakeCalls :
        /\ ctx.user_stake \in StakeKeys
        /\ user_stakes[ctx.user_stake].is_claimed
        /\ Geq(VaultAmount, user_stakes[ctx.user_stake].amount)
        /\ unstake(ctx).err = "AlreadyClaimed"
        /\ emergency_unstake(ctx).err = "AlreadyClaimed"

(***************************************************************************)
(* C4  unstake after the lock pays principal plus reward                   *)
(***************************************************************************)
\* The token accounts after `amount` moved from account `from` to account `to`.
AfterTransfer(from, to, amount) ==
    [token_accounts EXCEPT ![from].amount = AsU64(ExactDiff(@, amount)),
                           ![to].amount = AsU64(ExactSum(@, amount))]

\* C4: unstake on an open position at any clock value >= unlock_timestamp, the
\* vault holding at least amount + reward_amount, makes exactly one transfer of
\* amount + reward_amount from the vault to the owner's token account, sets
\* is_claimed, and lowers total_staked by amount and total_stakers by 1.
UnstakePaysPrincipalAndReward ==
    \A ctx \in UnstakeCalls :
        (/\ Unstake_accounts(ctx) = "Ok"
         /\ ctx.user_stake \in OpenKeys
         /\ clock >= user_stakes[ctx.user_stake].unlock_timestamp
         /\ VaultCovers(user_stakes[ctx.user_stake]))
        => LET us == user_stakes[ctx.user_stake]
               payout == AsU64(ExactSum(us.amount, us.reward_amount))
               r == unstake(ctx)
           IN  /\ r.err = "Ok"
               /\ r.transfers = <<Transfer(VaultKey, ctx.user_token_account, payout)>>
               /\ token_accounts[ctx.user_token_account].owner = us.user
               /\ r.token_accounts = AfterTransfer(VaultKey, ctx.user_token_account, payout)
               /\ r.user_stakes = [user_stakes EXCEPT ![ctx.user_stake].is_claimed = TRUE]
               /\ AsU128(r.pool.total_staked) = ExactDiff(pool.total_staked, us.amount)
               /\ r.pool.total_stakers = pool.total_stakers - 1
               /\ r.pool = [pool EXCEPT !.total_staked = r.pool.total_staked,
                                        !.total_stakers = r.pool.total_stakers]

\* alice staked 1000 for a reward of 8 and was paid 1008 at or after the unlock time.
UnstakePaid1008 ==
    \E k \in StakeKeys :
        /\ user_stakes[k].is_claimed
        /\ user_stakes[k].user = "alice"
        /\ user_stakes[k].amount = U64(1000)
        /\ user_stakes[k].reward_amount = U64(8)
        /\ clock >= user_stakes[k].unlock_timestamp
        /\ token_accounts["alice_ata"].amount = U64(1508)

(***************************************************************************)
(* C5  emergency_unstake returns the principal and forfeits the reward     *)
(***************************************************************************)
\* What a successful emergency_unstake(ctx) with outcome r does: one transfer of
\* the principal from the vault to the owner, reward_amount 0, is_claimed set,
\* the whole stored reward forfeited, the pool aggregates lowered.
EmergencyOutcome(ctx, r) ==
    LET us == user_stakes[ctx.user_stake]
    IN  /\ r.err = "Ok"
        /\ r.transfers = <<Transfer(VaultKey, ctx.user_token_account, us.amount)>>
        /\ token_accounts[ctx.user_token_account].owner = us.user
        /\ r.token_accounts = AfterTransfer(VaultKey, ctx.user_token_account, us.amount)
        /\ r.user_stakes = [user_stakes EXCEPT ![ctx.user_stake].is_claimed = TRUE,
                                               ![ctx.user_stake].reward_amount = U64(0)]
        /\ r.event.forfeited_rewards = us.reward_amount
        /\ AsU128(r.pool.total_staked) = ExactDiff(pool.total_staked, us.amount)
        /\ r.pool.total_stakers = pool.total_stakers - 1
        /\ r.pool = [pool EXCEPT !.total_staked = r.pool.total_staked,
                                 !.total_stakers = r.pool.total_stakers]

\* C5: emergency_unstake on an open position succeeds at any clock value,
\* transfers exactly the principal from the vault to the owner, sets
\* reward_amount to 0 and is_claimed, lowers the pool aggregates, and forfeits
\* the whole stored reward.
EmergencyAlwaysReturnsPrincipal ==
    \A ctx \in UnstakeCalls :
        (Unstake_accounts(ctx) = "Ok" /\ ctx.user_stake \in OpenKeys)
        => EmergencyOutcome(ctx, emergency_unstake(ctx))

\* The same, for the positions whose principal the vault still holds.
EmergencyReturnsPrincipalWhenCovered ==
    \A ctx \in UnstakeCalls :
        (/\ Unstake_accounts(ctx) = "Ok"
         /\ ctx.user_stake \in OpenKeys
         /\ Geq(VaultAmount, user_stakes[ctx.user_stake].amount))
        => EmergencyOutcome(ctx, emergency_unstake(ctx))

(***************************************************************************)
(* C6  The reward stored by stake                                          *)
(***************************************************************************)
\* floor(amount * rate_bps * lock_days / (10000 * 365)) without a width limit:
\* for a 64-bit amount, a 16-bit rate and at most 90 days the product stays
\* below 2^88, so 128 bits hold every intermediate value.
ExactReward(amount, rate_bps, lock_days) ==
    LET m1 == SubSeq(MulCarry(AsU128(amount), rate_bps, 0), 1, U128Bytes)
        m2 == SubSeq(MulCarry(m1, lock_days, 0), 1, U128Bytes)
    IN  DivFrom(m2, 10000 * 365, U128Bytes, 0)

\* C6: the reward stored by a successful stake equals
\* floor(amount * rate_bps * lock_days / (10000 * 365)), rate_bps being the
\* pool rate of the chosen lock class as read at stake time.
StoredRewardIsExactFloor ==
    \A c \in StakeCalls :
        LET r == stake(c.ctx, c.amount, c.lock_days)
        IN  r.err = "Ok"
            => AsU128(r.user_stakes[stake_address(c.ctx.user, clock)].reward_amount)
                 = ExactReward(c.amount, reward_rate_of(pool, c.lock_days).val, c.lock_days)

\* The same for the rewards that fit 64 bits.
StoredRewardIsFloorWhenItFits ==
    \A c \in StakeCalls :
        LET r == stake(c.ctx, c.amount, c.lock_days)
            exact == ExactReward(c.amount, reward_rate_of(pool, c.lock_days).val, c.lock_days)
        IN  (r.err = "Ok" /\ AsU128(AsU64(exact)) = exact)
            => r.user_stakes[stake_address(c.ctx.user, clock)].reward_amount = AsU64(exact)

(***************************************************************************)
(* C7  The reward is frozen at stake time                                  *)
(***************************************************************************)
\* The reward of position us computed anew from the rates the pool has now.
RewardAtCurrentRates(us) ==
    calculate_reward(us.amount, reward_rate_of(pool, us.lock_days).val, us.lock_days).val

\* A successful unstake transfers the principal plus the stored reward_amount.
UnstakePaysStoredReward ==
    \A ctx \in UnstakeCalls :
        unstake(ctx).err = "Ok"
        => LET us == user_stakes[ctx.user_stake]
           IN  /\ Len(unstake(ctx).transfers) = 1
               /\ AsU128(unstake(ctx).transfers[1].amount)
                    = ExactSum(us.amount, us.reward_amount)
               /\ unstake(ctx).user_stakes[ctx.user_stake].reward_amount = us.reward_amount

\* No step changes the reward_amount of a position that it leaves open.
RewardUntouchedWhileOpen ==
    \A k \in OpenKeys :
        (k \in DOMAIN user_stakes' /\ ~user_stakes'[k].is_claimed)
        => user_stakes'[k].reward_amount = user_stakes[k].reward_amount

\* C7: between stake and closing no passage of time, no update_reward_rates,
\* set_paused or fund_rewards and no operation on another position changes a
\* position's reward_amount, and unstake pays the stored value, not one
\* computed from the current rates or the elapsed time.
RewardFrozen == []UnstakePaysStoredReward /\ [][RewardUntouchedWhileOpen]_vars

\* The rates changed after the stake, another position was closed, and unstake
\* pays the owner the stored reward, which differs from the one at current rates.
StoredRewardPaidAfterRateChange ==
    \E ctx \in UnstakeCalls :
        /\ unstake(ctx).err = "Ok"
        /\ StakeKeys \ OpenKeys # {}
        /\ clock > user_stakes[ctx.user_stake].stake_timestamp
        /\ user_stakes[ctx.user_stake].reward_amount
             # RewardAtCurrentRates(user_stakes[ctx.user_stake])
        /\ AsU128(unstake(ctx).transfers[1].amount)
             = ExactSum(user_stakes[ctx.user_stake].amount,
                        user_stakes[ctx.user_stake].reward_amount)

(***************************************************************************)
(* C8  The preconditions of stake                                          *)
(***************************************************************************)
\* C8: stake is rejected with no transfer, no new position and unchanged pool
\* aggregates whenever amount = 0 (InvalidAmount), lock_days is not 30, 60 or
\* 90 (InvalidLockPeriod) or the pool is paused (PoolPaused) -- the error being
\* that of the first failing check once the accounts pass validation -- and it
\* succeeds only when all three preconditions hold.
StakePreconditions ==
    \A c \in StakeCalls :
        LET r == stake(c.ctx, c.amount, c.lock_days)
            zero == IsZero(c.amount)
            badLock == c.lock_days \notin {30, 60, 90}
            paused == pool.is_paused
        IN  /\ (zero \/ badLock \/ paused) => (r.err # "Ok" /\ NoEffect(r))
            /\ Stake_accounts(c.ctx) = "Ok"
                 => /\ zero => r.err = "InvalidAmount"
                    /\ (~zero /\ badLock) => r.err = "InvalidLockPeriod"
                    /\ (~zero /\ ~badLock /\ paused) => r.err = "PoolPaused"
            /\ r.err = "Ok"
                 => /\ ~zero /\ ~badLock /\ ~paused
                    /\ stake_address(c.ctx.user, clock) \in DOMAIN r.user_stakes

\* In a paused pool that holds a position, three calls whose accounts validate
\* are refused, one for each precondition, the last one with funds at hand.
StakeRefusedForEachReason ==
    /\ StakeKeys # {}
    /\ pool.is_paused
    /\ \E c \in StakeCalls : stake(c.ctx, c.amount, c.lock_days).err = "InvalidAmount"
    /\ \E c \in StakeCalls : stake(c.ctx, c.amount, c.lock_days).err = "InvalidLockPeriod"
    /\ \E c \in StakeCalls :
          /\ stake(c.ctx, c.amount, c.lock_days).err = "PoolPaused"
          /\ Geq(token_accounts[c.ctx.user_token_account].amount, c.amount)

(***************************************************************************)
(* C9  A failed transfer leaves no trace                                   *)
(***************************************************************************)
\* stake reaches its transfer with these arguments.
StakeReachesTransfer(c) ==
    /\ Stake_accounts(c.ctx) = "Ok"
    /\ ~IsZero(c.amount)
    /\ c.lock_days \in {30, 60, 90}
    /\ ~pool.is_paused

\* C9: when the token transfer inside stake (user balance < amount), unstake
\* (vault balance < amount + reward_amount) or emergency_unstake (vault balance
\* < amount) fails, the instruction fails with the transfer's error and changes
\* nothing: no balance moves, no position is created or marked claimed, and the
\* pool aggregates stay.
TransferFailureIsAtomic ==
    /\ \A c \in StakeCalls :
          (/\ StakeReachesTransfer(c)
           /\ Less(token_accounts[c.ctx.user_token_account].amount, c.amount))
          => LET r == stake(c.ctx, c.amount, c.lock_days)
             IN  r.err = "InsufficientFunds" /\ NoEffect(r)
    /\ \A ctx \in UnstakeCalls :
          (Unstake_accounts(ctx) = "Ok" /\ ctx.user_stake \in OpenKeys)
          => LET us == user_stakes[ctx.user_stake]
             IN  /\ (clock >= us.unlock_timestamp /\ ~VaultCovers(us))
                      => /\ unstake(ctx).err = "InsufficientFunds"
                         /\ NoEffect(unstake(ctx))
                 /\ Less(VaultAmount, us.amount)
                      => /\ emergency_unstake(ctx).err = "InsufficientFunds"
                         /\ NoEffect(emergency_unstake(ctx))

\* One state in which each of the three transfers fails for lack of funds.
EachTransferFails ==
    /\ \E c \in StakeCalls :
          /\ StakeReachesTransfer(c)
          /\ stake(c.ctx, c.amount, c.lock_days).err = "InsufficientFunds"
    /\ \E ctx \in UnstakeCalls :
          /\ ctx.user_stake \in OpenKeys
          /\ clock >= user_stakes[ctx.user_stake].unlock_timestamp
          /\ unstake(ctx).err = "InsufficientFunds"
          /\ emergency_unstake(ctx).err = "InsufficientFunds"

(***************************************************************************)
(* C10  Admin instructions are for the authority alone                     *)
(***************************************************************************)
\* An NFT instruction that left config and tiers as it found them.
NftNoEffect(r) == r.config = config /\ r.tiers = tiers

\* Every argument list of create_tier the model draws from.
CreateTierArgs ==
    [tier_id : TierIdChoices, tier_name : NameChoices, price : PriceChoices,
     max_supply : SupplyChoices, uri : UriChoices]

CreateTierCall(a, x) ==
    create_tier(CreateTierCtx(a, x.tier_id), x.tier_id, x.tier_name, x.price,
                x.max_supply, x.uri)

\* The staking admin instructions called by a signer other than pool.authority.
StakingAdminRefusesOthers(a) ==
    /\ \A p \in BOOLEAN :
          /\ set_paused(AdminCtx(a), p).err = "Unauthorized"
          /\ NoEffect(set_paused(AdminCtx(a), p))
    /\ \A r \in RateTables \cup WideRateTables :
          /\ update_reward_rates(AdminCtx(a), r[1], r[2], r[3]).err = "Unauthorized"
          /\ NoEffect(update_reward_rates(AdminCtx(a), r[1], r[2], r[3]))
    /\ \A ta \in WalletAccountIds, amt \in AmountChoices :
          LET r == fund_rewards(FundCtx(a, ta), amt)
          IN  /\ r.err # "Ok"
              /\ FundRewards_accounts(FundCtx(a, ta)) = "Ok" => r.err = "Unauthorized"
              /\ NoEffect(r)

\* The staking admin instructions called by pool.authority.
StakingAdminObeysAuthority(a) ==
    /\ \A p \in BOOLEAN :
          LET r == set_paused(AdminCtx(a), p)
          IN  /\ r.err = "Ok"
              /\ r.pool = [pool EXCEPT !.is_paused = p]
              /\ r.token_accounts = token_accounts /\ r.user_stakes = user_stakes
    /\ \A t \in RateTables \cup WideRateTables :
          LET r == update_reward_rates(AdminCtx(a), t[1], t[2], t[3])
          IN  /\ r.err = "Ok"
              /\ r.pool = [pool EXCEPT !.reward_rate_30 = t[1], !.reward_rate_60 = t[2],
                                       !.reward_rate_90 = t[3]]
              /\ r.token_accounts = token_accounts /\ r.user_stakes = user_stakes
    /\ \A ta \in WalletAccountIds, amt \in AmountChoices :
          (/\ FundRewards_accounts(FundCtx(a, ta)) = "Ok"
           /\ Geq(token_accounts[ta].amount, amt))
          => LET r == fund_rewards(FundCtx(a, ta), amt)
             IN  /\ r.err = "Ok"
                 /\ r.token_accounts = AfterTransfer(ta, VaultKey, amt)
                 /\ r.pool = pool /\ r.user_stakes = user_stakes

\* The NFT admin instructions called by a signer other than config.authority.
NftAdminRefusesOthers(a) ==
    /\ \A p \in BOOLEAN :
          /\ nft_set_paused(AdminCtx(a), p).err = "Unauthorized"
          /\ NftNoEffect(nft_set_paused(AdminCtx(a), p))
    /\ \A t \in TierKeyChoices :
          /\ \A act \in BOOLEAN :
                LET r == set_tier_active(UpdateTierCtx(a, t), act)
                IN  /\ r.err # "Ok"
                    /\ t \in TierKeys => r.err = "Unauthorized"
                    /\ NftNoEffect(r)
          /\ \A np \in PriceChoices :
                LET r == update_tier_price(UpdateTierCtx(a, t), np)
                IN  /\ r.err # "Ok"
                    /\ t \in TierKeys => r.err = "Unauthorized"
                    /\ NftNoEffect(r)
    /\ \A x \in CreateTierArgs :
          /\ CreateTierCall(a, x).err # "Ok"
          /\ x.tier_id \notin TierKeys => CreateTierCall(a, x).err = "Unauthorized"
          /\ NftNoEffect(CreateTierCall(a, x))

\* The NFT admin instructions called by config.authority.
NftAdminObeysAuthority(a) ==
    /\ \A p \in BOOLEAN :
          LET r == nft_set_paused(AdminCtx(a), p)
          IN  r.err = "Ok" /\ r.config = [config EXCEPT !.is_paused = p] /\ r.tiers = tiers
    /\ \A t \in TierKeys :
          /\ \A act \in BOOLEAN :
                LET r == set_tier_active(UpdateTierCtx(a, t), act)
                IN  /\ r.err = "Ok" /\ r.config = config
                    /\ r.tiers = [tiers EXCEPT ![t].is_active = act]
          /\ \A np \in PriceChoices :
                LET r == update_tier_price(UpdateTierCtx(a, t), np)
                IN  /\ r.err = "Ok" /\ r.config = config
                    /\ r.tiers = [tiers EXCEPT ![t].price = np]
    /\ \A x \in CreateTierArgs :
          (/\ x.tier_id \in {1, 2, 3} \ TierKeys
           /\ Len(x.tier_name) <= 32
           /\ Len(x.uri) <= 200)
          => LET r == CreateTierCall(a, x)
             IN  /\ r.err = "Ok" /\ r.config = config
                 /\ DOMAIN r.tiers = TierKeys \cup {x.tier_id}
                 /\ \A t \in TierKeys : r.tiers[t] = tiers[t]
                 /\ r.tiers[x.tier_id].tier_id = x.tier_id
                 /\ r.tiers[x.tier_id].tier_name = x.tier_name
                 /\ r.tiers[x.tier_id].price = x.price
                 /\ r.tiers[x.tier_id].max_supply = x.max_supply
                 /\ r.tiers[x.tier_id].metadata_uri = x.uri
                 /\ r.tiers[x.tier_id].current_supply = 0
                 /\ r.tiers[x.tier_id].is_active

\* C10: every admin instruction of the two programs called by a signer other
\* than the stored authority fails -- with Unauthorized when its accounts pass
\* validation -- and changes no state; called by the authority it applies
\* exactly the requested mutation.
AdminOnly ==
    /\ pool.is_initialized
         => \A a \in Identities :
               IF a = pool.authority THEN StakingAdminObeysAuthority(a)
               ELSE StakingAdminRefusesOthers(a)
    /\ config.is_initialized
         => \A a \in Identities :
               IF a = config.authority THEN NftAdminObeysAuthority(a)
               ELSE NftAdminRefusesOthers(a)

\* Both programs are set up and bear the marks of their authorities' calls
\* (a paused pool, a vault funded beyond the staked principal, a paused
\* program, an inactive tier), and a signer who is not the authority is
\* refused by each program.
AdminCallsAppliedAndRefused ==
    /\ pool.is_initialized /\ pool.is_paused /\ Less(pool.total_staked, VaultAmount)
    /\ config.is_initialized /\ config.is_paused
    /\ \E t \in TierKeys : ~tiers[t].is_active
    /\ \E a \in Identities :
          /\ a # pool.authority
          /\ set_paused(AdminCtx(a), FALSE).err = "Unauthorized"
    /\ \E a \in Identities, t \in TierKeys :
          /\ a # config.authority
          /\ set_tier_active(UpdateTierCtx(a, t), TRUE).err = "Unauthorized"

(***************************************************************************)
(* C11  Reward arithmetic never wraps                                      *)
(***************************************************************************)
\* C11: for every amount, every rate the pool holds and every lock class,
\* calculate_reward either returns exactly
\* floor(amount * rate_bps * lock_days / 3650000) or fails; it never returns
\* a value reduced modulo 2^64.
RewardNeverWraps ==
    pool.is_initialized
    => \A amount \in AmountChoices \cup WideAmountChoices, lock_days \in {30, 60, 90} :
          LET rate_bps == reward_rate_of(pool, lock_days).val
              r == calculate_reward(amount, rate_bps, lock_days)
          IN  r.some => AsU128(r.val) = ExactReward(amount, rate_bps, lock_days)

(***************************************************************************)
(* C12  Only the owner closes a position                                   *)
(***************************************************************************)
\* Outcome r of a closing instruction called with ctx: a success has the
\* position's user as signer, the pool as the position's pool, and pays from
\* the vault into a stake-mint token account of the signer; a call by anyone
\* but the position's user fails without effect.
ClosedByOwnerOnly(ctx, r) ==
    /\ r.err = "Ok"
         => /\ ctx.user_stake \in StakeKeys
            /\ user_stakes[ctx.user_stake].user = ctx.user
            /\ user_stakes[ctx.user_stake].pool = PoolKey
            /\ Len(r.transfers) = 1
            /\ r.transfers[1].from = VaultKey
            /\ token_accounts[r.transfers[1].to].owner = ctx.user
            /\ token_accounts[r.transfers[1].to].mint = pool.stake_mint
    /\ (ctx.user_stake \in StakeKeys /\ user_stakes[ctx.user_stake].user # ctx.user)
         => (r.err # "Ok" /\ NoEffect(r))

\* C12: unstake and emergency_unstake succeed only when the signer is the
\* position's user and the position's pool is the pool, the payout goes to a
\* token account the signer owns in the pool's stake mint, and a call by any
\* other identity fails with no transfer and no state change.
OnlyOwnerCloses ==
    \A ctx \in UnstakeCalls :
        /\ ClosedByOwnerOnly(ctx, unstake(ctx))
        /\ ClosedByOwnerOnly(ctx, emergency_unstake(ctx))

\* An unlocked position its owner can close either way is refused to another
\* signer who names their own token account.
StrangerRefusedOwnerServed ==
    \E ctx \in UnstakeCalls, other \in Identities, ta \in WalletAccountIds :
        /\ unstake(ctx).err = "Ok"
        /\ emergency_unstake(ctx).err = "Ok"
        /\ other # ctx.user
        /\ token_accounts[ta].owner = other
        /\ token_accounts[ta].mint = pool.stake_mint
        /\ unstake(UnstakeCtx(other, ctx.user_stake, ta)).err = "ConstraintRaw"
        /\ emergency_unstake(UnstakeCtx(other, ctx.user_stake, ta)).err = "ConstraintRaw"

(***************************************************************************)
(* C13  One holder record per buyer and tier                               *)
(***************************************************************************)
\* Every PurchaseNft context and tier_id of this state.
PurchaseCalls ==
    [ctx : {PurchaseNftCtx(b, t, bta, tta, <<"nft_mint", m>>) :
               b \in Identities, t \in TierKeyChoices, bta \in SaleBuyerAccountIds,
               tta \in SaleTreasuryAccountIds, m \in SaleTierIdChoices},
     tier_id : SaleTierIdChoices]

\* The purchase left every account as it found it, moved no token, minted nothing.
PurchaseNoEffect(r) ==
    /\ r.tiers = tiers
    /\ r.holders = holders
    /\ r.nft_accounts = nft_accounts
    /\ r.token_accounts = token_accounts
    /\ r.transfers = <<>>
    /\ r.minted = <<>>

\* A purchase_nft by a buyer who has a holder record of the tier fails -- with
\* the account-in-use error of `init` when config and tier load -- and has no
\* effect; every holder record bears the buyer and the tier of its key.
SecondPurchaseRefused ==
    /\ \A c \in PurchaseCalls :
          holder_address(c.ctx.buyer, c.tier_id) \in HolderKeys
          => LET r == purchase_nft(c.ctx, c.tier_id)
             IN  /\ r.err # "Ok"
                 /\ c.ctx.tier \in TierKeys => r.err = "AccountAlreadyInUse"
                 /\ PurchaseNoEffect(r)
    /\ \A k \in HolderKeys : holders[k].holder = k[1] /\ holders[k].tier_id = k[2]

\* No step removes or changes a holder record.
HolderRecordsKept ==
    \A k \in HolderKeys : k \in DOMAIN holders' /\ holders'[k] = holders[k]

\* C13: a holder record exists at most once per (buyer, tier_id): a second
\* purchase_nft by the same buyer for the same tier always fails, transfers no
\* tokens, mints no NFT, leaves current_supply unchanged and does not alter the
\* existing holder record.
OneHolderRecordPerPair == []SecondPurchaseRefused /\ [][HolderRecordsKept]_vars

\* A holder with funds is refused a second NFT of a tier that is active, has
\* supply left and is sold by an unpaused program.
SecondPurchaseOfOpenTierRefused ==
    \E c \in PurchaseCalls :
        /\ holder_address(c.ctx.buyer, c.tier_id) \in HolderKeys
        /\ c.ctx.tier = c.tier_id
        /\ ~config.is_paused
        /\ tiers[c.tier_id].is_active
        /\ tiers[c.tier_id].current_supply < tiers[c.tier_id].max_supply
        /\ token_accounts[c.ctx.buyer_token_account].owner = c.ctx.buyer
        /\ Geq(token_accounts[c.ctx.buyer_token_account].amount, tiers[c.tier_id].price)
        /\ c.ctx.treasury_token_account = TreasuryAccount
        /\ c.ctx.nft_mint = tiers[c.tier_id].nft_mint
        /\ purchase_nft(c.ctx, c.tier_id).err = "AccountAlreadyInUse"

(***************************************************************************)
(* C14  Supply cap                                                         *)
(***************************************************************************)
\* The holder records of tier t.
HoldersOf(t) == {k \in HolderKeys : holders[k].tier_id = t}

\* C14: every tier has current_supply <= max_supply and current_supply equal
\* to the number of its holder records, and purchase_nft on a tier whose
\* current_supply equals max_supply fails -- with SoldOut when the accounts
\* validate, the program is not paused and the tier is active -- without
\* transferring tokens or minting.
SupplyCap ==
    /\ \A t \in TierKeys :
          /\ tiers[t].current_supply <= tiers[t].max_supply
          /\ tiers[t].current_supply = Cardinality(HoldersOf(t))
    /\ \A c \in PurchaseCalls :
          (/\ c.ctx.tier \in TierKeys
           /\ tiers[c.ctx.tier].current_supply = tiers[c.ctx.tier].max_supply)
          => LET r == purchase_nft(c.ctx, c.tier_id)
             IN  /\ r.err # "Ok"
                 /\ PurchaseNoEffect(r)
                 /\ (/\ PurchaseNft_accounts(c.ctx, c.tier_id) = "Ok"
                     /\ ~config.is_paused
                     /\ tiers[c.ctx.tier].is_active)
                    => r.err = "SoldOut"

\* One tier sold its two NFTs, and a buyer with funds and no holder record is
\* turned away from another tier that is sold out.
SoldOutTierRefusesBuyer ==
    /\ \E t \in TierKeys : tiers[t].current_supply = 2 /\ Cardinality(HoldersOf(t)) = 2
    /\ \E c \in PurchaseCalls :
          /\ purchase_nft(c.ctx, c.tier_id).err = "SoldOut"
          /\ tiers[c.tier_id].current_supply = 1
          /\ Geq(token_accounts[c.ctx.buyer_token_account].amount, tiers[c.tier_id].price)

(***************************************************************************)
(* C15  create_tier validates its arguments                                *)
(***************************************************************************)
\* C15: create_tier creates no tier record when tier_id is outside 1..3
\* (InvalidTier), tier_name is longer than 32 (NameTooLong) or uri is longer
\* than 200 (UriTooLong), the error being that of the first failing check once
\* the accounts validate; it creates no second record for a tier_id that has
\* one; and a created tier starts with current_supply = 0 and is_active = true.
CreateTierValidation ==
    /\ \A a \in Identities, x \in CreateTierArgs :
          LET r == CreateTierCall(a, x)
              badId == x.tier_id < 1 \/ x.tier_id > 3
              badName == Len(x.tier_name) > 32
              badUri == Len(x.uri) > 200
              accountsOk == CreateTier_accounts(CreateTierCtx(a, x.tier_id), x.tier_id) = "Ok"
          IN  /\ (badId \/ badName \/ badUri \/ x.tier_id \in TierKeys)
                   => (r.err # "Ok" /\ NftNoEffect(r))
              /\ (accountsOk /\ badId) => r.err = "InvalidTier"
              /\ (accountsOk /\ ~badId /\ badName) => r.err = "NameTooLong"
              /\ (accountsOk /\ ~badId /\ ~badName /\ badUri) => r.err = "UriTooLong"
              /\ r.err = "Ok"
                   => /\ r.tiers[x.tier_id].current_supply = 0
                      /\ r.tiers[x.tier_id].is_active
                      /\ r.tiers[x.tier_id].tier_id = x.tier_id
    /\ \A t \in TierKeys : t \in {1, 2, 3} /\ tiers[t].tier_id = t
                           /\ Len(tiers[t].tier_name) <= 32
                           /\ Len(tiers[t].metadata_uri) <= 200

\* With a tier in place, the authority's calls are refused for a bad tier_id,
\* a long name, a long uri and a tier_id already taken.
CreateTierRefusedForEachReason ==
    /\ TierKeys # {}
    /\ \E x \in CreateTierArgs : CreateTierCall(config.authority, x).err = "InvalidTier"
    /\ \E x \in CreateTierArgs : CreateTierCall(config.authority, x).err = "NameTooLong"
    /\ \E x \in CreateTierArgs : CreateTierCall(config.authority, x).err = "UriTooLong"
    /\ \E x \in CreateTierArgs :
          /\ x.tier_id \in TierKeys
          /\ CreateTierCall(config.authority, x).err = "AccountAlreadyInUse"

(***************************************************************************)
(* C16  The terms of a position are fixed by its stake                     *)
(***************************************************************************)
\* Every position has a lock class of 30, 60 or 90 days and unlocks
\* lock_days * 86400 seconds after its stake.
UnlockFormula ==
    \A k \in StakeKeys :
        /\ user_stakes[k].lock_days \in {30, 60, 90}
        /\ user_stakes[k].unlock_timestamp
             = user_stakes[k].stake_timestamp + user_stakes[k].lock_days * 86400

\* No step changes the stake_timestamp, lock_days, unlock_timestamp, amount,
\* user or pool of a position, or removes the position.
TermsUntouched ==
    \A k \in StakeKeys :
        /\ k \in DOMAIN user_stakes'
        /\ user_stakes'[k].stake_timestamp = user_stakes[k].stake_timestamp
        /\ user_stakes'[k].lock_days = user_stakes[k].lock_days
        /\ user_stakes'[k].unlock_timestamp = user_stakes[k].unlock_timestamp
        /\ user_stakes'[k].amount = user_stakes[k].amount
        /\ user_stakes'[k].user = user_stakes[k].user
        /\ user_stakes'[k].pool = user_stakes[k].pool

\* C16: for every position ever created unlock_timestamp = stake_timestamp +
\* lock_days * 86400 with lock_days in {30, 60, 90}, and stake_timestamp,
\* lock_days, unlock_timestamp, amount, user and pool never change after the
\* stake, unstake and emergency_unstake included.
TermsFixedAtStake == []UnlockFormula /\ [][TermsUntouched]_vars

\* A position closed by unstake and one closed by emergency_unstake, principal
\* and unlock time still on record.
BothClosingsKeepTerms ==
    \E k1, k2 \in StakeKeys :
        /\ user_stakes[k1].is_claimed /\ ~IsZero(user_stakes[k1].reward_amount)
        /\ user_stakes[k2].is_claimed /\ IsZero(user_stakes[k2].reward_amount)
        /\ user_stakes[k2].lock_days # 30
        /\ ~IsZero(user_stakes[k1].amount) /\ ~IsZero(user_stakes[k2].amount)
        /\ user_stakes[k2].unlock_timestamp = k2[2] + user_stakes[k2].lock_days * 86400

(***************************************************************************)
(* C17  An open position has a principal                                   *)
(***************************************************************************)
\* C17: in every reachable state every position with is_claimed = false has
\* amount > 0.
OpenPositionsHavePrincipal ==
    \A k \in OpenKeys : user_stakes[k].amount # U64(0)

\* Beside an open position, a stake of amount 0 whose accounts validate is refused.
ZeroStakeRefusedBesideOpenPosition ==
    /\ OpenKeys # {}
    /\ \E c \in StakeCalls :
          /\ c.amount = U64(0)
          /\ c.lock_days = 30
          /\ ~pool.is_paused
          /\ stake(c.ctx, c.amount, c.lock_days).err = "InvalidAmount"

(***************************************************************************)
(* C18  total_stakers counts the open positions                            *)
(***************************************************************************)
\* C18: pool.total_stakers equals the number of positions with is_claimed =
\* false in every reachable state, and a successful unstake or
\* emergency_unstake always finds it above zero and lowers it by exactly one
\* (the saturating subtraction never saturates).
StakersCountOpenPositions ==
    /\ pool.total_stakers = Cardinality(OpenKeys)
    /\ \A ctx \in UnstakeCalls :
          /\ unstake(ctx).err = "Ok"
               => /\ pool.total_stakers >= 1
                  /\ unstake(ctx).pool.total_stakers = pool.total_stakers - 1
          /\ emergency_unstake(ctx).err = "Ok"
               => /\ pool.total_stakers >= 1
                  /\ emergency_unstake(ctx).pool.total_stakers = pool.total_stakers - 1
    /\ \A c \in StakeCalls :
          stake(c.ctx, c.amount, c.lock_days).err = "Ok"
          => stake(c.ctx, c.amount, c.lock_days).pool.total_stakers = pool.total_stakers + 1

\* One user holds the only open position, the other position having been
\* closed: the count is back to one.
CountFollowedStakeAndClose ==
    /\ Cardinality(StakeKeys) = 2
    /\ Cardinality(OpenKeys) = 1
    /\ pool.total_stakers = 1
    /\ \E ctx \in UnstakeCalls : emergency_unstake(ctx).err = "Ok"

(***************************************************************************)
(* C19  The pool is set up once and changed by its authority only          *)
(***************************************************************************)
Rates(p) == <<p.reward_rate_30, p.reward_rate_60, p.reward_rate_90>>

\* What the admin instructions govern: authority, stake mint, pause flag, rates.
Settings(p) == <<p.authority, p.stake_mint, p.is_paused, Rates(p)>>

\* initialize fails on an initialized pool; stake, unstake, emergency_unstake
\* and fund_rewards leave the settings alone; set_paused and update_reward_rates
\* change only their own field, and only when the authority signs.
PoolFrame ==
    pool.is_initialized
    => /\ \A a \in Identities, t \in RateTables \cup WideRateTables :
             /\ initialize(InitializeCtx(a), t[1], t[2], t[3]).err # "Ok"
             /\ NoEffect(initialize(InitializeCtx(a), t[1], t[2], t[3]))
       /\ \A c \in StakeCalls :
             Settings(stake(c.ctx, c.amount, c.lock_days).pool) = Settings(pool)
       /\ \A ctx \in UnstakeCalls :
             /\ Settings(unstake(ctx).pool) = Settings(pool)
             /\ Settings(emergency_unstake(ctx).pool) = Settings(pool)
       /\ \A a \in Identities, ta \in WalletAccountIds, amt \in AmountChoices :
             fund_rewards(FundCtx(a, ta), amt).pool = pool
       /\ \A a \in Identities, p \in BOOLEAN :
             LET r == set_paused(AdminCtx(a), p)
             IN  /\ r.pool = [pool EXCEPT !.is_paused = r.pool.is_paused]
                 /\ r.err = "Ok" => (a = pool.authority /\ r.pool.is_paused = p)
                 /\ r.err # "Ok" => r.pool = pool
       /\ \A a \in Identities, t \in RateTables \cup WideRateTables :
             LET r == update_reward_rates(AdminCtx(a), t[1], t[2], t[3])
             IN  /\ r.pool = [pool EXCEPT !.reward_rate_30 = r.pool.reward_rate_30,
                                          !.reward_rate_60 = r.pool.reward_rate_60,
                                          !.reward_rate_90 = r.pool.reward_rate_90]
                 /\ r.err = "Ok" => (a = pool.authority /\ Rates(r.pool) = t)
                 /\ r.err # "Ok" => r.pool = pool

\* A step of an initialized pool keeps it initialized with its authority and
\* stake mint, changes is_paused only as a successful set_paused signed by the
\* authority does, and the rates only as a successful update_reward_rates
\* signed by the authority does.
PoolSettingsStep ==
    pool.is_initialized
    => /\ pool'.is_initialized
       /\ pool'.authority = pool.authority
       /\ pool'.stake_mint = pool.stake_mint
       /\ pool'.is_paused # pool.is_paused
            => /\ set_paused(AdminCtx(pool.authority), pool'.is_paused).err = "Ok"
               /\ pool' = set_paused(AdminCtx(pool.authority), pool'.is_paused).pool
               /\ UNCHANGED <<token_accounts, user_stakes>>
       /\ Rates(pool') # Rates(pool)
            => /\ pool' = [pool EXCEPT !.reward_rate_30 = pool'.reward_rate_30,
                                       !.reward_rate_60 = pool'.reward_rate_60,
                                       !.reward_rate_90 = pool'.reward_rate_90]
               /\ update_reward_rates(AdminCtx(pool.authority), pool'.reward_rate_30,
                                      pool'.reward_rate_60, pool'.reward_rate_90).err = "Ok"
               /\ UNCHANGED <<token_accounts, user_stakes>>

\* C19: the pool is initialized at most once; afterwards authority and
\* stake_mint never change, is_paused changes only through a successful
\* set_paused and the rates only through a successful update_reward_rates, both
\* by the authority; stake, unstake, emergency_unstake and fund_rewards leave
\* authority, is_paused and the rates unchanged.
PoolSetUpOnce == []PoolFrame /\ [][PoolSettingsStep]_vars

\* A paused pool with an open and a closed position refuses a second
\* initialize by anyone and the admin calls of a signer who is not its authority.
SettingsChangedByAuthorityOnly ==
    /\ pool.is_initialized /\ pool.is_paused
    /\ StakeKeys \ OpenKeys # {} /\ OpenKeys # {}
    /\ \E a \in Identities :
          /\ a # pool.authority
          /\ initialize(InitializeCtx(a), 1000, 1500, 2000).err = "AccountAlreadyInUse"
          /\ set_paused(AdminCtx(a), FALSE).err = "Unauthorized"
          /\ update_reward_rates(AdminCtx(a), 1000, 1500, 2000).err = "Unauthorized"
    /\ initialize(InitializeCtx(pool.authority), 1000, 1500, 2000).err = "AccountAlreadyInUse"

(***************************************************************************)
(* C20  stake opens a fresh position                                       *)
(***************************************************************************)
\* C20: a successful stake creates a record at the key (user, timestamp), which
\* had none, and leaves every other record as it was; a stake whose key has a
\* record fails -- with the account-in-use error of `init` -- makes no transfer
\* and leaves the record unchanged; every record sits at the key of its user
\* and stake_timestamp.
StakeOpensFreshPosition ==
    /\ \A c \in StakeCalls :
          LET key == stake_address(c.ctx.user, clock)
              r == stake(c.ctx, c.amount, c.lock_days)
          IN  /\ key \in StakeKeys
                   => /\ r.err # "Ok"
                      /\ pool.is_initialized => r.err = "AccountAlreadyInUse"
                      /\ NoEffect(r)
              /\ r.err = "Ok"
                   => /\ key \notin StakeKeys
                      /\ DOMAIN r.user_stakes = StakeKeys \cup {key}
                      /\ \A k \in StakeKeys : r.user_stakes[k] = user_stakes[k]
                      /\ r.user_stakes[key].user = c.ctx.user
                      /\ r.user_stakes[key].stake_timestamp = clock
                      /\ r.user_stakes[key].amount = c.amount
                      /\ ~r.user_stakes[key].is_claimed
    /\ \A k \in StakeKeys :
          k = stake_address(user_stakes[k].user, user_stakes[k].stake_timestamp)

\* One user holds two open positions opened at distinct timestamps, and a
\* further stake at the timestamp of the second is refused.
TwoOpenPositionsOfOneUser ==
    \E k1, k2 \in OpenKeys :
        /\ k1[1] = k2[1]
        /\ k1[2] < k2[2]
        /\ k2[2] = clock
        /\ \E c \in StakeCalls :
              /\ c.ctx.user = k1[1]
              /\ ~IsZero(c.amount)
              /\ stake(c.ctx, c.amount, c.lock_days).err = "AccountAlreadyInUse"

(***************************************************************************)
(* C21  purchase_nft: refusals and effects                                 *)
(***************************************************************************)
\* A purchase_nft call of a paused program or of an inactive tier fails without
\* effect, with ProgramPaused resp. TierNotActive when the accounts validate.
PausedOrInactiveRefused(c, r) ==
    /\ config.is_paused
          => /\ r.err # "Ok"
             /\ PurchaseNoEffect(r)
             /\ PurchaseNft_accounts(c.ctx, c.tier_id) = "Ok" => r.err = "ProgramPaused"
    /\ (c.ctx.tier \in TierKeys /\ ~tiers[c.ctx.tier].is_active)
          => /\ r.err # "Ok"
             /\ PurchaseNoEffect(r)
             /\ (PurchaseNft_accounts(c.ctx, c.tier_id) = "Ok" /\ ~config.is_paused)
                   => r.err = "TierNotActive"

\* What a successful purchase_nft does: one transfer of the tier's price from
\* the buyer's account to the treasury's, one NFT minted to the buyer, the
\* tier's current_supply raised by 1, a holder record bearing the price.
PurchaseEffects(c, r) ==
    r.err = "Ok"
    => LET ctx == c.ctx
           price == tiers[ctx.tier].price
           to == nft_address(ctx.buyer, ctx.nft_mint)
           key == holder_address(ctx.buyer, c.tier_id)
       IN  /\ r.transfers = <<Transfer(ctx.buyer_token_account,
                                       ctx.treasury_token_account, price)>>
           /\ token_accounts[ctx.buyer_token_account].owner = ctx.buyer
           /\ token_accounts[ctx.treasury_token_account].owner = config.treasury
           /\ r.token_accounts = AfterTransfer(ctx.buyer_token_account,
                                               ctx.treasury_token_account, price)
           /\ r.minted = <<MintTo(ctx.nft_mint, to, 1)>>
           /\ ctx.nft_mint = tiers[ctx.tier].nft_mint
           /\ DOMAIN r.nft_accounts = DOMAIN nft_accounts \cup {to}
           /\ \A a \in DOMAIN r.nft_accounts :
                 r.nft_accounts[a] = nft_balance(nft_accounts, a) + (IF a = to THEN 1 ELSE 0)
           /\ r.tiers = [tiers EXCEPT ![ctx.tier].current_supply =
                                          tiers[ctx.tier].current_supply + 1]
           /\ key \notin HolderKeys
           /\ DOMAIN r.holders = HolderKeys \cup {key}
           /\ \A k \in HolderKeys : r.holders[k] = holders[k]
           /\ r.holders[key].holder = ctx.buyer
           /\ r.holders[key].tier_id = c.tier_id
           /\ r.holders[key].nft_mint = ctx.nft_mint
           /\ r.holders[key].price_paid = price

\* The tier record named by the call bears another tier_id than the one requested.
TierIdDiffers(c) == c.ctx.tier \in TierKeys /\ tiers[c.ctx.tier].tier_id # c.tier_id

\* C21 as stated: purchase_nft fails with no token transfer, no mint, no holder
\* record and unchanged current_supply when the program is paused
\* (ProgramPaused), the tier is inactive (TierNotActive) or the tier record's
\* tier_id differs from the requested tier_id (InvalidTier, when nothing
\* precedes that check); on success it moves exactly the tier's current price
\* from the buyer to the treasury, mints exactly 1 NFT to the buyer, increments
\* current_supply by 1 and records price_paid equal to the price charged.
PurchaseRefusalsAndEffectsWithInvalidTier ==
    \A c \in PurchaseCalls :
        LET r == purchase_nft(c.ctx, c.tier_id)
        IN  /\ PausedOrInactiveRefused(c, r)
            /\ PurchaseEffects(c, r)
            /\ TierIdDiffers(c)
                  => /\ r.err # "Ok"
                     /\ PurchaseNoEffect(r)
                     /\ (/\ config.is_initialized
                         /\ holder_address(c.ctx.buyer, c.tier_id) \notin HolderKeys
                         /\ ~config.is_paused
                         /\ tiers[c.ctx.tier].is_active)
                        => r.err = "InvalidTier"

\* C21, amended: as above, except that a call whose tier record bears another
\* tier_id than the one requested is refused by account validation -- with the
\* seeds-constraint error once config loads and the holder record is new --
\* and never with InvalidTier.
PurchaseRefusalsAndEffects ==
    \A c \in PurchaseCalls :
        LET r == purchase_nft(c.ctx, c.tier_id)
        IN  /\ PausedOrInactiveRefused(c, r)
            /\ PurchaseEffects(c, r)
            /\ r.err # "InvalidTier"
            /\ TierIdDiffers(c)
                  => /\ r.err # "Ok"
                     /\ PurchaseNoEffect(r)
                     /\ (/\ config.is_initialized
                         /\ holder_address(c.ctx.buyer, c.tier_id) \notin HolderKeys)
                        => r.err = "ConstraintSeeds"

\* A buyer paid 500 for tier 1, whose price has since been set to 100, and
\* holds its NFT; the treasury received the 500; a further purchase succeeds,
\* one of an inactive tier is refused with TierNotActive and one naming
\* another tier's record is refused by the seeds constraint.
PurchasedAtUpdatedPrice ==
    /\ \E k \in HolderKeys :
          /\ holders[k].tier_id = 1
          /\ holders[k].price_paid = U64(500)
          /\ tiers[1].price = U64(100)
          /\ tiers[1].current_supply >= 1
          /\ nft_balance(nft_accounts, nft_address(holders[k].holder, holders[k].nft_mint)) = 1
    /\ Geq(token_accounts[TreasuryAccount].amount, U64(500))
    /\ \E c \in PurchaseCalls : purchase_nft(c.ctx, c.tier_id).err = "Ok"
    /\ \E c \in PurchaseCalls : purchase_nft(c.ctx, c.tier_id).err = "TierNotActive"
    /\ \E c \in PurchaseCalls :
          /\ TierIdDiffers(c)
          /\ tiers[c.ctx.tier].is_active
          /\ purchase_nft(c.ctx, c.tier_id).err = "ConstraintSeeds"

(***************************************************************************)
(* C22  Principal stays covered                                            *)
(***************************************************************************)
\* C22: after any sequence of initialize, fund_rewards, stake, unstake and
\* emergency_unstake by any users the vault balance is at least
\* pool.total_staked, and at least the principal of every open position.
PrincipalCovered ==
    pool.is_initialized
    => /\ Geq(VaultAmount, pool.total_staked)
       /\ \A k \in OpenKeys : Geq(VaultAmount, user_stakes[k].amount)

(***************************************************************************)
(* C23  Pausing blocks only new stakes                                     *)
(***************************************************************************)
\* The accounts of an Unstake context are the pool's and the signer's own;
\* pool.is_paused is no part of the condition.
ClosingAccountsValid(ctx) ==
    /\ pool.is_initialized
    /\ ctx.user_stake \in StakeKeys
    /\ user_stakes[ctx.user_stake].user = ctx.user
    /\ user_stakes[ctx.user_stake].pool = PoolKey
    /\ token_accounts[ctx.user_token_account].mint = pool.stake_mint
    /\ token_accounts[ctx.user_token_account].owner = ctx.user

\* unstake succeeds exactly when the accounts are valid, the position is open,
\* the lock has expired and the vault holds principal plus reward; it then pays
\* both and closes the position; otherwise it has no effect.
UnstakeOutcomeIgnoresPause(ctx) ==
    LET r == unstake(ctx)
        us == user_stakes[ctx.user_stake]
        payout == AsU64(ExactSum(us.amount, us.reward_amount))
    IN  /\ r.err = "Ok" <=> (/\ ClosingAccountsValid(ctx)
                             /\ ctx.user_stake \in OpenKeys
                             /\ clock >= us.unlock_timestamp
                             /\ VaultCovers(us))
        /\ r.err # "Ok" => NoEffect(r)
        /\ r.err = "Ok"
              => /\ r.transfers = <<Transfer(VaultKey, ctx.user_token_account, payout)>>
                 /\ r.token_accounts = AfterTransfer(VaultKey, ctx.user_token_account, payout)
                 /\ r.user_stakes = [user_stakes EXCEPT ![ctx.user_stake].is_claimed = TRUE]
                 /\ r.pool = [pool EXCEPT
                                 !.total_staked = AsU64(ExactDiff(pool.total_staked, us.amount)),
                                 !.total_stakers = pool.total_stakers - 1]

\* emergency_unstake succeeds exactly when the accounts are valid, the position
\* is open and the vault holds the principal; it then returns the principal and
\* closes the position; otherwise it has no effect.
EmergencyOutcomeIgnoresPause(ctx) ==
    LET r == emergency_unstake(ctx)
        us == user_stakes[ctx.user_stake]
    IN  /\ r.err = "Ok" <=> (/\ ClosingAccountsValid(ctx)
                             /\ ctx.user_stake \in OpenKeys
                             /\ Geq(VaultAmount, us.amount))
        /\ r.err # "Ok" => NoEffect(r)
        /\ r.err = "Ok" => EmergencyOutcome(ctx, r)

\* C23: in a paused pool every stake call fails without effect, while the
\* outcome of every unstake and emergency_unstake call -- whether it succeeds,
\* what it pays, what it writes -- is fixed by the accounts, the position, the
\* clock and the vault balance alone, the same in paused and unpaused pools,
\* and leaves pool.is_paused as it was.
PauseBlocksOnlyStake ==
    /\ pool.is_paused
          => \A c \in StakeCalls :
                LET r == stake(c.ctx, c.amount, c.lock_days)
                IN  r.err # "Ok" /\ NoEffect(r)
    /\ \A ctx \in UnstakeCalls :
          /\ UnstakeOutcomeIgnoresPause(ctx)
          /\ EmergencyOutcomeIgnoresPause(ctx)
          /\ unstake(ctx).pool.is_paused = pool.is_paused
          /\ emergency_unstake(ctx).pool.is_paused = pool.is_paused

\* In a paused pool a stake with funds at hand is refused with PoolPaused, the
\* owner of an unlocked position can unstake it for principal plus reward, and
\* the owner of a position still locked can take the principal out.
PausedPoolPaysOut ==
    /\ pool.is_paused
    /\ \E c \in StakeCalls : stake(c.ctx, c.amount, c.lock_days).err = "PoolPaused"
    /\ \E ctx \in UnstakeCalls :
          /\ unstake(ctx).err = "Ok"
          /\ unstake(ctx).transfers[1].amount = U64(1008)
    /\ \E ctx \in UnstakeCalls :
          /\ unstake(ctx).err = "StillLocked"
          /\ emergency_unstake(ctx).err = "Ok"
          /\ emergency_unstake(ctx).transfers[1].amount = U64(1000)

(***************************************************************************)
(* C24  Access follows the live NFT balance                                *)
(***************************************************************************)
\* Every context and tier_id a view instruction may be called with in this
\* state: existing and missing holder records, existing and missing accounts.
ViewCalls ==
    [ctx : {ViewCtx(w, h, a) :
               w \in Identities,
               h \in HolderKeys \cup {holder_address("alice", 1)},
               a \in DOMAIN nft_accounts \cup {nft_address("alice", <<"nft_mint", 1>>)}},
     tier_id : SaleTierIdChoices]

\* C24: a get_access_level call that returns, returns the holder record's
\* tier_id (1..3) when the wallet's NFT token account holds at least 1 token
\* and 0 otherwise; a verify_holder(tier_id) call that returns, returns true
\* exactly when the record's tier_id equals tier_id and that balance is at
\* least 1; both return for every wallet on its own holder record and its own
\* account for the record's mint.
AccessFollowsBalance ==
    \A c \in ViewCalls :
        LET ctx == c.ctx
            level == get_access_level(ctx)
            verified == verify_holder(ctx, c.tier_id)
            own == /\ ctx.holder_record \in HolderKeys
                   /\ ctx.holder_record[1] = ctx.wallet
                   /\ ctx.nft_account \in DOMAIN nft_accounts
                   /\ ctx.nft_account =
                        nft_address(ctx.wallet, holders[ctx.holder_record].nft_mint)
        IN  /\ own => level.err = "Ok"
            /\ (own /\ ctx.holder_record[2] = c.tier_id) => verified.err = "Ok"
            /\ level.err = "Ok"
                  => /\ own
                     /\ level.value = IF nft_accounts[ctx.nft_account] >= 1
                                       THEN holders[ctx.holder_record].tier_id
                                       ELSE 0
                     /\ holders[ctx.holder_record].tier_id \in 1..3
            /\ verified.err = "Ok"
                  => /\ own
                     /\ verified.value =
                          (/\ holders[ctx.holder_record].tier_id = c.tier_id
                           /\ nft_accounts[ctx.nft_account] >= 1)

\* alice bought an NFT of tier 1 and gave it away: her holder record is in
\* place, her account is empty, get_access_level returns 0 and verify_holder
\* false; bob, who kept his, reads his tier and true.
GaveAwayReadsNoAccess ==
    /\ holder_address("alice", 1) \in HolderKeys
    /\ nft_balance(nft_accounts, nft_address(Collector, <<"nft_mint", 1>>)) >= 1
    /\ \E c \in ViewCalls :
          /\ c.ctx.wallet = "alice"
          /\ c.ctx.holder_record = holder_address("alice", 1)
          /\ nft_accounts[c.ctx.nft_account] = 0
          /\ get_access_level(c.ctx) = ViewOk(0)
          /\ verify_holder(c.ctx, 1) = ViewOk(FALSE)
    /\ \E c \in ViewCalls :
          /\ c.ctx.wallet = "bob"
          /\ get_access_level(c.ctx) = ViewOk(c.tier_id)
          /\ verify_holder(c.ctx, c.tier_id) = ViewOk(TRUE)

(***************************************************************************)
(* C25  get_stake_info agrees with unstake                                 *)
(***************************************************************************)
\* The larger of two integers.
Max(a, b) == IF a >= b THEN a ELSE b

\* The unstake contexts in which the owner of position k passes validation.
OwnerCalls(k) ==
    {ctx \in UnstakeCalls : ctx.user_stake = k /\ Unstake_accounts(ctx) = "Ok"}

\* Clock values around the unlock time of position us, besides the current one.
ClockProbes(us) ==
    {us.stake_timestamp, us.unlock_timestamp - 1, us.unlock_timestamp,
     us.unlock_timestamp + 1, clock}

\* get_stake_info returns for every position; it reports the stored fields,
\* time_remaining_seconds = max(0, unlock_timestamp - now) and
\* is_unlocked = (now >= unlock_timestamp), so is_unlocked is true exactly
\* when time_remaining_seconds = 0, at the current clock value and at the
\* clock values around the unlock time, where it is also the test unstake
\* applies to the lock; it fails for a missing account.
StakeInfoReported ==
    /\ \A k \in StakeKeys :
          LET us == user_stakes[k]
              info == get_stake_info(GetStakeInfoCtx(k))
          IN  /\ info.err = "Ok"
              /\ info.value.amount = us.amount
              /\ info.value.reward_amount = us.reward_amount
              /\ info.value.lock_days = us.lock_days
              /\ info.value.unlock_timestamp = us.unlock_timestamp
              /\ info.value.is_claimed = us.is_claimed
              /\ info.value.time_remaining_seconds = Max(0, us.unlock_timestamp - clock)
              /\ info.value.is_unlocked = (clock >= us.unlock_timestamp)
              /\ info.value.is_unlocked <=> info.value.time_remaining_seconds = 0
    /\ \A k \in StakeKeys : \A now \in ClockProbes(user_stakes[k]) :
          LET us == user_stakes[k]
          IN  /\ time_remaining_of(now, us) = Max(0, us.unlock_timestamp - now)
              /\ is_unlocked_of(now, us) = (now >= us.unlock_timestamp)
              /\ is_unlocked_of(now, us) <=> time_remaining_of(now, us) = 0
              /\ is_unlocked_of(now, us) <=> lock_expired(now, us)
    /\ \A k \in StakeKeyChoices \ StakeKeys : get_stake_info(GetStakeInfoCtx(k)).err # "Ok"

\* C25 as stated: besides the above, for every position is_unlocked is true
\* exactly when unstake on that position, called by its owner with valid
\* accounts, does not fail with StillLocked.
StakeInfoAgreesWithUnstakeOnEveryPosition ==
    /\ StakeInfoReported
    /\ \A k \in StakeKeys : \A ctx \in OwnerCalls(k) :
          get_stake_info(GetStakeInfoCtx(k)).value.is_unlocked
             <=> unstake(ctx).err # "StillLocked"

\* C25, amended: for every open position is_unlocked is true exactly when
\* unstake on that position, called by its owner with valid accounts, does not
\* fail with StillLocked; for every position, open or closed, is_unlocked
\* being true means that no unstake call fails with StillLocked.  A closed
\* position reports is_unlocked = false until its unlock time although
\* unstake fails on it with AlreadyClaimed.
StakeInfoAgreesWithUnstake ==
    /\ StakeInfoReported
    /\ \A k \in OpenKeys : \A ctx \in OwnerCalls(k) :
          get_stake_info(GetStakeInfoCtx(k)).value.is_unlocked
             <=> unstake(ctx).err # "StillLocked"
    /\ \A ctx \in UnstakeCalls :
          unstake(ctx).err = "StillLocked"
             => ~get_stake_info(GetStakeInfoCtx(ctx.user_stake)).value.is_unlocked
    /\ \A k \in StakeKeys \ OpenKeys : \A ctx \in OwnerCalls(k) :
          unstake(ctx).err = "AlreadyClaimed"

\* Two open positions side by side: one at its unlock instant (nothing
\* remaining, unlocked, unstake not refused as locked) and one with 30 days
\* remaining (locked, unstake refused with StillLocked).
InfoAtUnlockAndBefore ==
    /\ \E k \in OpenKeys : \E ctx \in OwnerCalls(k) :
          LET info == get_stake_info(GetStakeInfoCtx(k)).value
          IN  /\ clock = user_stakes[k].unlock_timestamp
              /\ info.time_remaining_seconds = 0
              /\ info.is_unlocked
              /\ unstake(ctx).err # "StillLocked"
    /\ \E k \in OpenKeys : \E ctx \in OwnerCalls(k) :
          LET info == get_stake_info(GetStakeInfoCtx(k)).value
          IN  /\ info.time_remaining_seconds = 30 * 24 * 60 * 60
              /\ ~info.is_unlocked
              /\ unstake(ctx).err = "StillLocked"

(***************************************************************************)
(* C26  total_minted and the tiers' supplies                               *)
(***************************************************************************)
\* The sum of current_supply over the tiers with ids in S.
RECURSIVE SumSupply(_)
SumSupply(S) ==
    IF S = {} THEN 0
    ELSE LET t == CHOOSE x \in S : TRUE
         IN  tiers[t].current_supply + SumSupply(S \ {t})

\* C26: in every reachable state config.total_minted equals the number of NFTs
\* minted by successful purchase_nft calls, which is the sum of current_supply
\* over all tiers and the number of holder records.
TotalMintedMatchesSupply ==
    /\ config.total_minted = SumSupply(TierKeys)
    /\ config.total_minted = Cardinality(HolderKeys)

====
